---- MODULE Spec2Model ----
(***************************************************************************)
(* Decoy mass-search and ion-scoring engine of rPTMDetermine               *)
(* (src/validate.py): ion matching, decoy generation, the sliced mass      *)
(* search and the per-spectrum decoy assignment.                           *)
(*                                                                         *)
(* Numbers.  Masses and m/z values of the search are integers in units of  *)
(* 0.01 Da, so that the tolerances 0.01 * charge and 0.1 * charge and the  *)
(* slice margin 1 are exact.  The m/z values of the ion matcher are        *)
(* integers in units of 0.2, the matching tolerance.  Positions are        *)
(* 0-based, as in the source; a TLA+ tuple s holds position i at s[i + 1]. *)
(***************************************************************************)
EXTENDS Integers, Sequences, FiniteSets, TLC

VARIABLES
    \* ---- count_matched_ions ----
    ion_mzs,        \* theoretical ion m/z list of the peptide (ascending)
    spec_mz,        \* spectrum.mz, the peak list
    num_ions,       \* the last result of count_matched_ions, None before
    prev_ions,      \* the result before the spectrum was last changed
    ipc             \* "start", "counted", "reordered", "added"

ionVars == <<ion_mzs, spec_mz, num_ions, prev_ions, ipc>>

VARIABLES
    \* ---- the search context and match_decoys ----
    decoy_db,       \* the rows of the decoy database file (their sequences)
    fixed_residues, \* config.fixed_residues
    uniprot,        \* self.uniprot
    target_res,     \* the target residue of the context, None for none
    fixed_aas,      \* the list fixed_aas after the termini were removed
    decoys,         \* DecoyPeptides(seqs, var_idxs, idxs, mods, masses)
    slices,         \* Slices(idxs, bounds)
    var_ptms,       \* VarPTMs(masses, max_mass, min_mass)
    peptide_mz,     \* the m/z match_decoys was last called with
    tol_factor,     \* the tolerance factor it was called with
    candidates,     \* the list it returned
    dpc             \* "config", "ready", "matched", "raised", "failed"

ctxVars == <<decoy_db, fixed_residues, uniprot, target_res, fixed_aas,
             decoys, slices, var_ptms>>

decoyVars == <<ctxVars, peptide_mz, tol_factor, candidates, dpc>>

VARIABLES
    \* ---- Validate.validate and _generate_decoy_matches ----
    target_residues, \* config.target_residues
    psms,            \* self.psms: the identifications, decoy_id included
    residues_left,   \* the target residues validate has still to process
    peptides_left,   \* the peptide strings of pep_strs_set not yet iterated
    peptide,         \* the peptide string of the current iteration
    charges_left,    \* the charges of charge_states not yet iterated
    charge,          \* the charge of the current iteration
    spectra,         \* the list spectra of the group: (max intensity, idx)
    max_spec,        \* the idx of the identification whose spectrum is max_spec
    pep_mz,          \* the m/z the group is searched with
    tight_count,     \* len(d_candidates) after the search with factor 0.01
    searched_wide,   \* whether the group was searched again with factor 0.1
    d_candidates,    \* the list d_candidates
    cand_num_ions,   \* the result of the prefilter map
    spec_at,         \* the position jj of the loop over spectra
    dpsm_vars,       \* the MatchScore of every candidate for the last spectrum
    evidence,        \* the worker results so far, kept when track_evidence
    track_evidence,  \* whether the run is one of two runs on the same inputs
    first_run,       \* the decoy_id of every identification after run one
    run,             \* the number of the run
    apc              \* the place in validate / _generate_decoy_matches

groupVars == <<peptides_left, peptide, charges_left, charge, spectra, max_spec,
               pep_mz, tight_count, searched_wide, d_candidates, cand_num_ions,
               spec_at, dpsm_vars>>

assignVars == <<target_residues, psms, residues_left, groupVars, evidence,
                track_evidence, first_run, run, apc>>

VARIABLES
    \* ---- a pool.map call of self.pool, task by task ----
    map_kind,        \* "ions" or "score" while a map is running, else None
    task_vals,       \* what the worker call of each candidate returns
    returned,        \* the candidates (positions) whose call has returned
    completed        \* those positions, in the order the calls returned

poolVars == <<map_kind, task_vals, returned, completed>>

VARIABLES
    \* ---- readers.PTMDB ----
    ptm_data,        \* self._data: the two mass lists and the three dicts
    ptm_entries,     \* the rows add_entry was called with, in call order
    ptm_asked,       \* the name and mass type of the last get_mass call
    ptm_got,         \* what that call returned: <<>> for None, else <<mass>>
    ptc              \* "idle", "open", or "answered" after a get_mass call
                     \* on the rows of ptm_entries

ptmVars == <<ptm_data, ptm_entries, ptm_asked, ptm_got, ptc>>

vars == <<ionVars, decoyVars, assignVars, poolVars, ptmVars>>

None == "None"

\* the value of a count that has not been taken yet
NoCount == 0 - 1

(***************************************************************************)
(* Generic helpers                                                         *)
(***************************************************************************)
Range(s) == {s[i] : i \in DOMAIN s}

Min2(a, b) == IF a <= b THEN a ELSE b

Max2(a, b) == IF a >= b THEN a ELSE b

RECURSIVE SumSeq(_)
SumSeq(s) == IF s = <<>> THEN 0 ELSE Head(s) + SumSeq(Tail(s))

\* s[start:end] of Python, for 0 <= start and 0 <= end
Slice(s, start, end) ==
    IF start >= Min2(end, Len(s)) THEN <<>>
    ELSE SubSeq(s, start + 1, Min2(end, Len(s)))

\* all tuples over S of length 0..n
SeqsUpTo(S, n) == UNION {[1..k -> S] : k \in 0..n}

\* the permutations of the positions 1..n, as tuples
PermsOf(n) == {p \in [1..n -> 1..n] : \A i, j \in 1..n : p[i] = p[j] => i = j}

\* bisect.bisect_left(a, x): the binary search of the standard library
RECURSIVE bisect_search(_, _, _, _)
bisect_search(a, x, lo, hi) ==
    IF lo >= hi THEN lo
    ELSE LET mid == (lo + hi) \div 2
         IN  IF a[mid + 1] < x THEN bisect_search(a, x, mid + 1, hi)
             ELSE bisect_search(a, x, lo, mid)

bisect_left(a, x) == bisect_search(a, x, 0, Len(a))

(***************************************************************************)
(* count_matched_ions                                                      *)
(***************************************************************************)
\* the matching tolerance 0.2, in units of 0.2
IonTol == 1

\* the bounds of the ion matcher's inputs
MaxMz == 4
MaxIons == 2
MaxPeaks == 2

\* a mutant: only the ion at the insertion point is tried, the one below is not
peak_matched_above_only(ions, idx, mz) ==
    idx < Len(ions) /\ ions[idx + 1] - mz <= IonTol

\* one term of the sum: the peak mz, whose insertion point in ions is idx
peak_matched(ions, idx, mz) ==
    \/ (idx > 0 /\ mz - ions[idx] <= IonTol)
    \/ (idx < Len(ions) /\ ions[idx + 1] - mz <= IonTol)

\* a mutant: the insertion points are those of the sorted peak list, paired
\* with the peaks in their given order
RECURSIVE sorted_insert(_, _)
sorted_insert(s, x) ==
    IF s = <<>> THEN <<x>>
    ELSE IF x < Head(s) THEN <<x>> \o s
    ELSE <<Head(s)>> \o sorted_insert(Tail(s), x)

RECURSIVE sorted_seq(_)
sorted_seq(s) ==
    IF s = <<>> THEN <<>> ELSE sorted_insert(sorted_seq(Tail(s)), Head(s))

bisect_idxs_of_sorted(ions, mzs) ==
    [k \in DOMAIN mzs |-> bisect_left(ions, sorted_seq(mzs)[k])]

bisect_idxs(ions, mzs) == [k \in DOMAIN mzs |-> bisect_left(ions, mzs[k])]

count_matched_ions(ions, mzs) ==
    LET idxs == bisect_idxs(ions, mzs)
    IN  Cardinality({k \in DOMAIN mzs : peak_matched(ions, idxs[k], mzs[k])})

IsAscending(s) == \A i \in 1..(Len(s) - 1) : s[i] <= s[i + 1]

IonStart ==
    /\ ion_mzs \in {s \in SeqsUpTo(0..MaxMz, MaxIons) : IsAscending(s)}
    /\ spec_mz \in SeqsUpTo(0..MaxMz, MaxPeaks)
    /\ num_ions = NoCount
    /\ prev_ions = NoCount
    /\ ipc = "start"

\* count_matched_ions(peptide, spectrum)
CountMatchedIons ==
    /\ ipc = "start"
    /\ num_ions' = count_matched_ions(ion_mzs, spec_mz)
    /\ ipc' = "counted"
    /\ UNCHANGED <<ptmVars, ion_mzs, spec_mz, prev_ions, decoyVars, assignVars, poolVars>>

\* the same peptide counted against the spectrum with its peaks reordered
CountReordered ==
    /\ ipc = "counted"
    /\ \E p \in PermsOf(Len(spec_mz)) :
          spec_mz' = [k \in DOMAIN spec_mz |-> spec_mz[p[k]]]
    /\ prev_ions' = num_ions
    /\ num_ions' = count_matched_ions(ion_mzs, spec_mz')
    /\ ipc' = "reordered"
    /\ UNCHANGED <<ptmVars, ion_mzs, decoyVars, assignVars, poolVars>>

\* the same peptide counted against the spectrum with one more peak, at the
\* m/z of one of the theoretical ions
CountWithIonPeak ==
    /\ ipc = "counted"
    /\ \E k \in DOMAIN ion_mzs : \E at \in 0..Len(spec_mz) :
          spec_mz' = Slice(spec_mz, 0, at) \o <<ion_mzs[k]>>
                       \o Slice(spec_mz, at, Len(spec_mz))
    /\ prev_ions' = num_ions
    /\ num_ions' = count_matched_ions(ion_mzs, spec_mz')
    /\ ipc' = "added"
    /\ UNCHANGED <<ptmVars, ion_mzs, decoyVars, assignVars, poolVars>>

IonNext == CountMatchedIons \/ CountReordered \/ CountWithIonPeak


(***************************************************************************)
(* Data of the run: residue masses, configuration, PTM tables              *)
(***************************************************************************)
\* constants.FIXED_MASSES["H2O"], 18.01056
FIXED_H2O == 1801

\* constants.RESIDUES: the standard residue symbols (those the model uses)
RESIDUES == {"A", "D", "E", "I", "K", "P", "Q", "T"}

\* constants.AA_MASSES[res].mono
aa_mono(res) ==
    CASE res = "A" -> 7104
      [] res = "D" -> 11503
      [] res = "E" -> 12904
      [] res = "I" -> 11308
      [] res = "K" -> 12809
      [] res = "P" -> 9705
      [] res = "Q" -> 12806
      [] res = "T" -> 10105

\* the position a ModSite holds for the N-terminus ("nterm" in the source)
NTermSite == 0

ModSite(mass, site, name) == [mass |-> mass, site |-> site, name |-> name]

\* self.unimod.get_mass(name) for the modification names of the configuration
unimod_get_mass(name) ==
    CASE name = "iTRAQ8plex" -> 30421
      [] name = "Phospho" -> 7997
      [] name = "Acetyl" -> 4201

\* config: the target modification and its mass (modifications.get_mod_mass)
target_mod == "Phospho"

mod_mass == unimod_get_mass(target_mod)

\* the background records of the decoy database file, by their Sequence field
Catalogue == <<
    <<"P", "E", "P", "T", "I", "D", "E", "K">>,
    <<"K", "E", "D", "I", "T", "P", "E", "P">>,
    <<"T", "A", "T", "A", "T", "A", "T">>,
    <<"A", "T", "P", "E", "T", "I", "D">>,
    <<"P", "E", "P", "T", "I", "D">>,
    <<"P", "E", "P", "T", "I", "D", "E", "X">>,
    <<"P", "E", "P", "K", "I", "D", "E">> >>

\* the fixed-modification tables of the configuration (residue or terminus ->
\* modification name)
NoFixed == [r \in {} |-> "iTRAQ8plex"]

FixedTables == {
    NoFixed,
    [r \in {"nterm", "K"} |-> "iTRAQ8plex"] }

\* a UniProt modification: its mass, when it has one
Modification(has_mass, mass) == [has_mass |-> has_mass, mass |-> mass]

\* self.uniprot: residue -> modifications, in the order of the PTM list file;
\* in the second table the modifications of D have no mass or one above 100
UniprotTables == {
    << <<"T", <<Modification(TRUE, 7997)>> >>,
       <<"K", <<Modification(TRUE, 4201), Modification(TRUE, 1402),
                Modification(TRUE, 4201), Modification(TRUE, 22619),
                Modification(FALSE, 0)>> >>,
       <<"E", <<Modification(TRUE, 0 - 1801)>> >> >>,
    << <<"T", <<Modification(TRUE, 7997)>> >>,
       <<"K", <<Modification(TRUE, 4201)>> >>,
       <<"D", <<Modification(TRUE, 22619), Modification(FALSE, 0)>> >> >> }

(***************************************************************************)
(* get_decoys, gen_fixed_mods, modify_decoys, _generate_residue_decoys     *)
(***************************************************************************)
\* a list comprehension whose items are lists, flattened: f[lo] \o ... \o f[hi]
RECURSIVE ConcatMap(_, _, _)
ConcatMap(f, lo, hi) ==
    IF lo > hi THEN <<>> ELSE f[lo] \o ConcatMap(f, lo + 1, hi)

\* len(r['Sequence']) >= 7
MinSeqLen == 7

\* a mutant: the sequences are not filtered by their length
get_decoys_of_any_length(rows, residue) ==
    {rows[k] : k \in {k \in DOMAIN rows :
        /\ (residue = None \/ residue \in Range(rows[k]))
        /\ Range(rows[k]) \subseteq RESIDUES}}

\* the set get_decoys builds from the rows of the database; a residue of
\* None applies no residue filter
get_decoys(rows, residue) ==
    {rows[k] : k \in {k \in DOMAIN rows :
        /\ (residue = None \/ residue \in Range(rows[k]))
        /\ Len(rows[k]) >= MinSeqLen
        /\ Range(rows[k]) \subseteq RESIDUES}}

\* list(set): the orders in which the set may be listed
ListingsOf(S) ==
    {l \in [1..Cardinality(S) -> S] : \A i, j \in DOMAIN l : l[i] = l[j] => i = j}

gen_fixed_mods(seq, fixed) ==
    (IF "nterm" \in DOMAIN fixed
     THEN <<ModSite(unimod_get_mass(fixed["nterm"]), NTermSite, fixed["nterm"])>>
     ELSE <<>>)
    \o ConcatMap([ii \in 0..(Len(seq) - 1) |-> IF seq[ii + 1] \in DOMAIN fixed
                             THEN <<ModSite(unimod_get_mass(fixed[seq[ii + 1]]),
                                            ii + 1, fixed[seq[ii + 1]])>>
                             ELSE <<>>],
                 0, Len(seq) - 1)

\* FIXED_MASSES["H2O"] + residue masses + fixed-modification masses
fixed_mass(seq, mods) ==
    FIXED_H2O + SumSeq([k \in DOMAIN seq |-> aa_mono(seq[k])])
              + SumSeq([k \in DOMAIN mods |-> mods[k].mass])

\* itertools.combinations(s, r), in its order
RECURSIVE combinations(_, _)
combinations(s, r) ==
    IF r = 0 THEN << <<>> >>
    ELSE IF Len(s) < r THEN <<>>
    ELSE LET with == combinations(Tail(s), r - 1)
         IN  [k \in DOMAIN with |-> <<Head(s)>> \o with[k]]
             \o combinations(Tail(s), r)

\* the cap on the instances of the target modification per decoy
MaxTargetMods == 3

\* a mutant: combinations of jj, not jj + 1, positions
target_combinations_off_by_one(target_idxs) ==
    LET last == Min2(Len(target_idxs), MaxTargetMods) - 1
    IN  ConcatMap([jj \in 0..last |-> combinations(target_idxs, jj)], 0, last)

\* the two nested loops of modify_decoys: the position tuples, in order
target_combinations(target_idxs) ==
    LET last == Min2(Len(target_idxs), MaxTargetMods) - 1
    IN  ConcatMap([jj \in 0..last |-> combinations(target_idxs, jj + 1)],
                  0, last)

\* a mutant: the modification's mass added once, whatever the combination
variant_mass_added_once(mass, idxs) == mass + mod_mass

\* line 722: the mass of the variant modified at the positions idxs
variant_mass(mass, idxs) == mass + mod_mass * Len(idxs)

\* a mutant: the site of the modification is the 0-based index
target_site_zero_based(kk) == kk

\* line 724: the site of the target modification at the 0-based index kk
target_site(kk) == kk + 1

\* the variants modify_decoys appends for sequence ii (0-based)
modify_decoy(ii, seq, target_idxs, fixed) ==
    LET mods == gen_fixed_mods(seq, fixed)
        mass == fixed_mass(seq, mods)
        combs == target_combinations(target_idxs)
    IN  [k \in DOMAIN combs |->
            [idx |-> ii,
             mass |-> variant_mass(mass, combs[k]),
             mods |-> mods \o [n \in DOMAIN combs[k] |->
                                  ModSite(mod_mass, target_site(combs[k][n]),
                                          target_mod)]]]

\* modify_decoys: (decoy_idxs, decoy_mods, decoy_seq_masses) as one list of
\* entries
modify_decoys(seqs, res_idxs, fixed) ==
    ConcatMap([k \in 1..Len(seqs) |->
                  modify_decoy(k - 1, seqs[k], res_idxs[k], fixed)],
              1, Len(seqs))

\* the positions (0-based, ascending) of seq whose residue is one of keep
positions_where(seq, keep) ==
    ConcatMap([i \in 0..(Len(seq) - 1) |->
                  IF seq[i + 1] \in keep THEN <<i>> ELSE <<>>],
              0, Len(seq) - 1)

\* utilities.sort_lists(0, masses, idxs, mods): the lists sorted together by
\* the first of them, entries of equal mass in their order of generation
sort_lists(entries) ==
    LET n == Len(entries)
        rank(i) == Cardinality({j \in 1..n :
                      \/ entries[j].mass < entries[i].mass
                      \/ (entries[j].mass = entries[i].mass /\ j < i)})
    IN  [r \in 1..n |-> entries[CHOOSE i \in 1..n : rank(i) = r - 1]]

\* _generate_residue_decoys, given the listing seqs of get_decoys
generate_residue_decoys(seqs, target, faas, fixed) ==
    LET var_idxs == [k \in DOMAIN seqs |->
                        positions_where(seqs[k], RESIDUES \ Range(faas))]
        res_idxs == [k \in DOMAIN seqs |->
                        positions_where(seqs[k], {target})]
        entries ==
            IF target # None THEN modify_decoys(seqs, res_idxs, fixed)
            ELSE [k \in DOMAIN seqs |->
                     [idx |-> k - 1,
                      mods |-> gen_fixed_mods(seqs[k], fixed),
                      mass |-> fixed_mass(seqs[k], gen_fixed_mods(seqs[k], fixed))]]
        sorted == sort_lists(entries)
    IN  [seqs |-> seqs,
         var_idxs |-> var_idxs,
         idxs |-> [p \in DOMAIN sorted |-> sorted[p].idx],
         mods |-> [p \in DOMAIN sorted |-> sorted[p].mods],
         masses |-> [p \in DOMAIN sorted |-> sorted[p].mass]]


(***************************************************************************)
(* utilities.slice_list and match_decoys                                   *)
(***************************************************************************)
\* the number of peptides per slice (500 in _generate_decoy_matches)
SliceSize == 2

\* the margin of 1 Da by which the slice lookup widens the mass
SliceMargin == 100

\* the tolerance factors 0.01 and 0.1 of the two search passes
TightTol == 1
WideTol == 10

\* the charges match_decoys tries: range(2, 5)
MatchCharges == <<2, 3, 4>>

\* utilities.slice_list(values, nslices): nslices contiguous slices of
\* len(values) div nslices entries (the last takes the remainder); for each
\* slice the offset at which it starts and its upper mass bound
slice_list(values, nslices) ==
    LET size == IF nslices = 0 THEN 0 ELSE Len(values) \div nslices
        first(k) == (k - 1) * size
        last(k) == IF k = nslices THEN Len(values) - 1 ELSE first(k + 1) - 1
    IN  [idxs |-> [k \in 1..nslices |-> first(k)],
         bounds |-> [k \in 1..nslices |-> values[last(k) + 1]]]

\* Python's list[i]: whether it raises IndexError, and the item otherwise
IndexOk(l, i) == i < Len(l) /\ i >= 0 - Len(l)

Item(l, i) == IF i >= 0 THEN l[i + 1] ELSE l[Len(l) + i + 1]

\* a mutant: both comparisons of the mask are made with the lower limit
masked_idxs_at_lower_limit(masses, start, end, lo, hi) ==
    LET last == Min2(end, Len(masses)) - 1
    IN  ConcatMap([p \in start..last |->
                      IF masses[p + 1] <= lo /\ masses[p + 1] >= lo
                      THEN <<p>> ELSE <<>>],
                  start, last)

\* the positions start..end-1 (0-based) whose mass lies in [lo, hi]
masked_idxs(masses, start, end, lo, hi) ==
    LET last == Min2(end, Len(masses)) - 1
    IN  ConcatMap([p \in start..last |->
                      IF masses[p + 1] <= hi /\ masses[p + 1] >= lo
                      THEN <<p>> ELSE <<>>],
                  start, last)

\* ---- the fixed-mod tier, lines 86-104 ----
fixed_start_at(sl, pep_mass) == bisect_left(sl.bounds, pep_mass - SliceMargin)

fixed_end_at(sl, pep_mass) ==
    Min2(bisect_left(sl.bounds, pep_mass + SliceMargin), Len(sl.idxs) - 1)

fixed_raises(sl, pep_mass) ==
    \/ ~IndexOk(sl.idxs, fixed_start_at(sl, pep_mass))
    \/ ~IndexOk(sl.idxs, fixed_end_at(sl, pep_mass))

\* seq_idxs of the fixed-mod tier, shifted by start
fixed_seq_idxs(dp, sl, pep_mass, tol) ==
    masked_idxs(dp.masses,
                Item(sl.idxs, fixed_start_at(sl, pep_mass)),
                Item(sl.idxs, fixed_end_at(sl, pep_mass)),
                pep_mass - tol, pep_mass + tol)

Peptide(seq, z, mods) == [seq |-> seq, charge |-> z, mods |-> mods]

fixed_candidates(dp, sl, pep_mass, tol, z) ==
    LET hits == fixed_seq_idxs(dp, sl, pep_mass, tol)
    IN  [k \in DOMAIN hits |->
            Peptide(dp.seqs[dp.idxs[hits[k] + 1] + 1], z,
                    dp.mods[hits[k] + 1])]

\* ---- the variable-PTM tier, lines 106-137 ----
var_start_at(sl, vp, pep_mass) ==
    Max2(bisect_left(sl.bounds, pep_mass - vp.max_mass - SliceMargin) - 1, 0)

var_end_at(sl, vp, pep_mass) ==
    Min2(bisect_left(sl.bounds, pep_mass - vp.min_mass + SliceMargin),
         Len(sl.idxs) - 1)

var_raises(sl, vp, pep_mass) ==
    \/ ~IndexOk(sl.idxs, var_start_at(sl, vp, pep_mass))
    \/ ~IndexOk(sl.idxs, var_end_at(sl, vp, pep_mass))

\* the (position, occurrence) pairs of one residue and mass: seq_res_idxs,
\* with the position shifted by start
var_seq_res_idxs(dp, sl, vp, pep_mass, tol, res, mass) ==
    LET start == Item(sl.idxs, var_start_at(sl, vp, pep_mass))
        end == Item(sl.idxs, var_end_at(sl, vp, pep_mass))
        hits == masked_idxs(dp.masses, start, end,
                            pep_mass - tol - mass, pep_mass + tol - mass)
        occurrences(p) ==
            LET pool == dp.idxs[p + 1] + 1
                sites == dp.var_idxs[pool]
            IN  ConcatMap([n \in 1..Len(sites) |->
                              IF dp.seqs[pool][sites[n] + 1] = res
                              THEN << <<p, sites[n]>> >> ELSE <<>>],
                          1, Len(sites))
    IN  ConcatMap([k \in 1..Len(hits) |-> occurrences(hits[k])], 1, Len(hits))

var_candidates(dp, sl, vp, pep_mass, tol, z) ==
    ConcatMap([r \in 1..Len(vp.masses) |->
        ConcatMap([m \in 1..Len(vp.masses[r][2]) |->
            LET mass == vp.masses[r][2][m]
                pairs == var_seq_res_idxs(dp, sl, vp, pep_mass, tol,
                                          vp.masses[r][1], mass)
            IN  [k \in DOMAIN pairs |->
                    Peptide(dp.seqs[dp.idxs[pairs[k][1] + 1] + 1], z,
                            dp.mods[pairs[k][1] + 1]
                              \o <<ModSite(mass, pairs[k][2] + 1, None)>>)]],
            1, Len(vp.masses[r][2]))],
        1, Len(vp.masses))

\* a mutant: the variable ModSite of every candidate of the variable-PTM
\* tier is appended in place to the mods list of its position
pool_with_appended_mods(dp, sl, vp, mz, tf) ==
    LET added(p) ==
            ConcatMap([k \in 1..Len(MatchCharges) |->
                ConcatMap([r \in 1..Len(vp.masses) |->
                    ConcatMap([m \in 1..Len(vp.masses[r][2]) |->
                        LET z == MatchCharges[k]
                            mass == vp.masses[r][2][m]
                            pairs == var_seq_res_idxs(dp, sl, vp, mz * z, tf * z,
                                                      vp.masses[r][1], mass)
                        IN  ConcatMap([n \in 1..Len(pairs) |->
                                IF pairs[n][1] = p
                                THEN <<ModSite(mass, pairs[n][2] + 1, None)>>
                                ELSE <<>>], 1, Len(pairs))],
                        1, Len(vp.masses[r][2]))],
                    1, Len(vp.masses))],
                1, Len(MatchCharges))
    IN  [dp EXCEPT !.mods = [p \in DOMAIN dp.mods |-> dp.mods[p] \o added(p - 1)]]

\* the decoys after a call of match_decoys that returned: the call reads
\* slices of masses, idxs, mods, seqs and var_idxs (lines 95-96, 102, 116-119)
\* and builds the mods of a candidate as a new list, r_mods[ii] + [...]
\* (lines 133-135)
pool_after_match(dp, sl, vp, mz, tf) == dp

\* whether match_decoys raises IndexError: at the first z whose lookup
\* indexes slices.idxs out of its range
match_raises(mz, sl, vp) ==
    \E c \in Range(MatchCharges) :
        \/ fixed_raises(sl, mz * c)
        \/ var_raises(sl, vp, mz * c)

\* the candidates match_decoys returns when it does not raise
match_decoys(mz, dp, sl, vp, tf) ==
    ConcatMap([k \in 1..Len(MatchCharges) |->
        LET z == MatchCharges[k]
            pep_mass == mz * z
            tol == tf * z
        IN  fixed_candidates(dp, sl, pep_mass, tol, z)
              \o var_candidates(dp, sl, vp, pep_mass, tol, z)],
        1, Len(MatchCharges))

(***************************************************************************)
(* The search context of _generate_decoy_matches, lines 506-540            *)
(***************************************************************************)
\* list.remove(x): the list without the first x; the caller tests membership
list_remove(l, x) ==
    LET at == CHOOSE i \in DOMAIN l : l[i] = x /\ \A j \in 1..(i - 1) : l[j] # x
    IN  SubSeq(l, 1, at - 1) \o SubSeq(l, at + 1, Len(l))

\* list(self.fixed_residues.keys()): the keys in the order of the table
FixedKeyOrder == <<"nterm", "cterm", "A", "D", "E", "I", "K", "P", "Q", "T">>

dict_keys(fixed) ==
    ConcatMap([k \in 1..Len(FixedKeyOrder) |->
                  IF FixedKeyOrder[k] \in DOMAIN fixed
                  THEN <<FixedKeyOrder[k]>> ELSE <<>>],
              1, Len(FixedKeyOrder))

\* lines 507-515: the residues bearing fixed modifications, termini removed
\* inside one try block
fixed_aas_of(fixed, target) ==
    LET keys == IF target # None THEN Append(dict_keys(fixed), target)
                ELSE dict_keys(fixed)
    IN  IF "nterm" \notin Range(keys) THEN keys
        ELSE IF "cterm" \notin Range(list_remove(keys, "nterm"))
             THEN list_remove(keys, "nterm")
             ELSE list_remove(list_remove(keys, "nterm"), "cterm")

\* the largest variable-modification mass kept, 100 Da
MaxVarMass == 10000

Abs(x) == IF x < 0 THEN 0 - x ELSE x

RECURSIVE SetToAscSeq(_)
SetToAscSeq(S) ==
    IF S = {} THEN <<>>
    ELSE LET m == CHOOSE x \in S : \A y \in S : x <= y
         IN  <<m>> \o SetToAscSeq(S \ {m})

\* a mutant: the masses of the table are kept whatever their size
var_ptm_masses_of_any_size(uniprot_table, faas) ==
    ConcatMap([k \in 1..Len(uniprot_table) |->
        IF uniprot_table[k][1] \in Range(faas) THEN <<>>
        ELSE << <<uniprot_table[k][1],
                  SetToAscSeq({uniprot_table[k][2][n].mass : n \in
                      {n \in DOMAIN uniprot_table[k][2] :
                          uniprot_table[k][2][n].has_mass}})>> >>],
        1, Len(uniprot_table))

\* lines 533-536: residue -> list of the distinct usable masses
var_ptm_masses_of(uniprot_table, faas) ==
    ConcatMap([k \in 1..Len(uniprot_table) |->
        IF uniprot_table[k][1] \in Range(faas) THEN <<>>
        ELSE << <<uniprot_table[k][1],
                  SetToAscSeq({uniprot_table[k][2][n].mass : n \in
                      {n \in DOMAIN uniprot_table[k][2] :
                          /\ uniprot_table[k][2][n].has_mass
                          /\ Abs(uniprot_table[k][2][n].mass) <= MaxVarMass}})>> >>],
        1, Len(uniprot_table))

\* lines 537-538 raise ValueError: max() or min() of an empty sequence
var_ptms_raises(masses) ==
    masses = <<>> \/ \E k \in DOMAIN masses : masses[k][2] = <<>>

SetMax(S) == CHOOSE x \in S : \A y \in S : y <= x

SetMin(S) == CHOOSE x \in S : \A y \in S : x <= y

\* VarPTMs(var_ptm_masses, var_ptm_max, var_ptm_min)
VarPTMs(masses) ==
    [masses |-> masses,
     max_mass |-> SetMax(UNION {Range(masses[k][2]) : k \in DOMAIN masses}),
     min_mass |-> SetMin(UNION {Range(masses[k][2]) : k \in DOMAIN masses})]


(***************************************************************************)
(* The search context as a state machine                                   *)
(***************************************************************************)
\* the bound on the rows of the decoy database
MaxRows == 2

\* the databases: rows of the catalogue (a set is built from them, so their
\* order in the file does not matter and they are drawn in catalogue order)
Databases ==
    {[k \in DOMAIN t |-> Catalogue[t[k]]] :
        t \in {t \in SeqsUpTo(1..Len(Catalogue), MaxRows) : IsAscending(t)}}

\* a database of two sequences that hold the target residue once each
TwoSequences == <<
    <<"P", "E", "P", "T", "I", "D", "E", "K">>,
    <<"A", "A", "P", "E", "P", "T", "I", "D", "E">> >>

\* a decoy database without two sequences of one mass
NearDatabase == <<
    <<"P", "E", "P", "T", "I", "D", "E", "K">>,
    <<"P", "E", "P", "T", "I", "D", "E", "Q">>,
    <<"K", "P", "E", "P", "T", "I", "D", "E", "T", "K", "T">> >>

TargetChoices == {None, "T"}

NoDecoys == [seqs |-> <<>>, var_idxs |-> <<>>, idxs |-> <<>>, mods |-> <<>>,
             masses |-> <<>>]

NoSlices == [idxs |-> <<>>, bounds |-> <<>>]

NoVarPTMs == [masses |-> <<>>, max_mass |-> 0, min_mass |-> 0]

DecoyStart ==
    /\ decoy_db \in Databases \cup {TwoSequences, NearDatabase}
    /\ fixed_residues \in FixedTables
    /\ uniprot \in UniprotTables
    /\ target_res \in TargetChoices
    /\ fixed_aas = <<>>
    /\ decoys = NoDecoys
    /\ slices = NoSlices
    /\ var_ptms = NoVarPTMs
    /\ peptide_mz = 0
    /\ tol_factor = 0
    /\ candidates = <<>>
    /\ dpc = "config"

\* _generate_decoy_matches, lines 506-540: the decoys of the residue, the
\* slices and the variable-PTM masses
GenerateContext ==
    /\ dpc = "config"
    /\ fixed_aas' = fixed_aas_of(fixed_residues, target_res)
    /\ \E seqs \in ListingsOf(get_decoys(decoy_db, target_res)) :
          decoys' = generate_residue_decoys(seqs, target_res, fixed_aas',
                                            fixed_residues)
    /\ slices' = slice_list(decoys'.masses, Len(decoys'.masses) \div SliceSize)
    /\ LET masses == var_ptm_masses_of(uniprot, fixed_aas')
       IN  IF var_ptms_raises(masses)
           THEN var_ptms' = NoVarPTMs /\ dpc' = "failed"
           ELSE var_ptms' = VarPTMs(masses) /\ dpc' = "ready"
    /\ UNCHANGED <<ptmVars, decoy_db, fixed_residues, uniprot, target_res,
                   peptide_mz, tol_factor, candidates, ionVars, poolVars, assignVars>>

\* the offsets from a decoy mass at which the model places a peptide mass
MassOffsets == {0 - 100, 0, 3, 25}

\* the m/z values the model searches with: near a decoy mass, or near a decoy
\* mass plus the largest or the smallest variable-modification mass, at one
\* of the charges; one far below and one far above every decoy mass
QueryMzs ==
    LET shifts == {0, var_ptms.max_mass, var_ptms.min_mass}
    IN  {(m + v + d) \div c : m \in Range(decoys.masses), v \in shifts,
                              d \in MassOffsets, c \in Range(MatchCharges)}
        \cup {SliceMargin}
        \cup {m + SliceMargin : m \in Range(decoys.masses)}

\* match_decoys(peptide_mz, decoys, slices, var_ptms, tol_factor)
MatchDecoys ==
    /\ dpc = "ready"
    /\ \E mz \in QueryMzs : \E tf \in {TightTol, WideTol} :
          /\ peptide_mz' = mz
          /\ tol_factor' = tf
          /\ IF match_raises(mz, slices, var_ptms)
             THEN candidates' = <<>> /\ dpc' = "raised" /\ decoys' = decoys
             ELSE /\ candidates' = match_decoys(mz, decoys, slices, var_ptms, tf)
                  /\ decoys' = pool_after_match(decoys, slices, var_ptms, mz, tf)
                  /\ dpc' = "matched"
    /\ UNCHANGED <<ptmVars, decoy_db, fixed_residues, uniprot, target_res, fixed_aas,
                   slices, var_ptms, ionVars, poolVars, assignVars>>

DecoyNext == GenerateContext \/ MatchDecoys

(***************************************************************************)
(* Validate.validate and _generate_decoy_matches                           *)
(***************************************************************************)
\* the number of candidates below which the search is repeated with the
\* wider tolerance (1000 in the source), and the number of candidates kept
\* after the prefilter (1000 in the source)
MinCandidates == 2
TopCandidates == 2

\* the bounds of the worker results: the ion counts and the MatchScore values
MaxIonCount == 1
MaxMatchScore == 1

\* the mass of a proton, 1.00728
PROTON == 101

\* peptides.calculate_mz(seq, mods, charge) of an identification
calculate_mz(psm, z) == (psm.mass + z * PROTON) \div z

Spectrum(id, max_intensity, precursor_mz) ==
    [id |-> id, max_intensity |-> max_intensity, precursor_mz |-> precursor_mz]

\* an identification: its peptide string (merge_seq_mods), the mass of that
\* peptide, its charge, its spectrum if it has one, its decoy_id if set
PSM(pep, mass, z, spectrum) ==
    [pep |-> pep, mass |-> mass, charge |-> z, spectrum |-> spectrum,
     decoy_id |-> <<>>]

DecoyID(seq, z, mods, features) ==
    [seq |-> seq, charge |-> z, mods |-> mods, features |-> features]

\* lines 556-557: the indices (0-based, ascending) of the identifications of
\* the peptide string
pep_idxs_of(pep) ==
    ConcatMap([idx \in 0..(Len(psms) - 1) |->
                  IF psms[idx + 1].pep = pep THEN <<idx>> ELSE <<>>],
              0, Len(psms) - 1)

\* a mutant: the identifications of the peptide string, of any charge
charge_pep_idxs_of_any_charge(pep, z) == pep_idxs_of(pep)

\* lines 567-568: those of them with the charge
charge_pep_idxs_of(pep, z) ==
    ConcatMap([idx \in 0..(Len(psms) - 1) |->
                  IF psms[idx + 1].pep = pep /\ psms[idx + 1].charge = z
                  THEN <<idx>> ELSE <<>>],
              0, Len(psms) - 1)

\* a mutant: every identification of the group, with or without a spectrum
spectra_of_all(pep, z) ==
    [k \in 1..Len(charge_pep_idxs_of(pep, z)) |->
        LET idx == charge_pep_idxs_of(pep, z)[k]
        IN  [max_intensity |-> IF psms[idx + 1].spectrum # <<>>
                               THEN psms[idx + 1].spectrum[1].max_intensity
                               ELSE 0,
             idx |-> idx]]

\* lines 576-579: (max intensity, idx) of the identifications of the group
\* that have a spectrum
spectra_of(pep, z) ==
    ConcatMap([k \in 1..Len(charge_pep_idxs_of(pep, z)) |->
        LET idx == charge_pep_idxs_of(pep, z)[k]
        IN  IF psms[idx + 1].spectrum # <<>>
            THEN <<[max_intensity |-> psms[idx + 1].spectrum[1].max_intensity,
                    idx |-> idx]>>
            ELSE <<>>],
        1, Len(charge_pep_idxs_of(pep, z)))

\* max(values): the position of the first of the largest values
first_max_at(values) ==
    CHOOSE k \in DOMAIN values :
        /\ \A j \in DOMAIN values : values[j] <= values[k]
        /\ \A j \in 1..(k - 1) : values[j] < values[k]

\* a mutant: the last spectrum of the group
last_spec_of(group_spectra) == group_spectra[Len(group_spectra)].idx

\* line 585: the idx of the identification whose spectrum is max_spec
max_spec_of(group_spectra) ==
    group_spectra[first_max_at([k \in DOMAIN group_spectra |->
                                   group_spectra[k].max_intensity])].idx

\* a mutant: the candidates of both passes
search_merged(mz, dp, sl, vp) ==
    LET tight == match_decoys(mz, dp, sl, vp, TightTol)
    IN  IF Len(tight) < MinCandidates
        THEN tight \o match_decoys(mz, dp, sl, vp, WideTol)
        ELSE tight

\* lines 589-593: the candidates of the tight pass, or of the wide pass
search(mz, dp, sl, vp) ==
    LET tight == match_decoys(mz, dp, sl, vp, TightTol)
    IN  IF Len(tight) < MinCandidates
        THEN match_decoys(mz, dp, sl, vp, WideTol)
        ELSE tight

\* lines 606-609: sorted(range(n), key=counts, reverse=True), a stable sort
sorted_idxs_of(counts) ==
    LET n == Len(counts)
        rank(k) == Cardinality({j \in 1..n :
                      \/ counts[j] > counts[k]
                      \/ (counts[j] = counts[k] /\ j < k)})
    IN  [r \in 1..n |-> CHOOSE k \in 1..n : rank(k) = r - 1]

\* a mutant: the first candidates of the search, whatever their ions
top_candidates_unranked(cands, counts) ==
    SubSeq(cands, 1, Min2(TopCandidates, Len(cands)))

\* line 613: the top candidates by the number of ions matched
top_candidates(cands, counts) ==
    LET order == sorted_idxs_of(counts)
    IN  [r \in 1..Min2(TopCandidates, Len(cands)) |-> cands[order[r]]]

\* the results a pool.map of pure workers may return for the candidates:
\* equal candidates get equal results, and a result already seen for a
\* candidate and spectrum is returned again
WorkerResults(kind, cands, spec_id, top) ==
    {res \in [DOMAIN cands -> 0..top] :
        /\ \A i, j \in DOMAIN cands : cands[i] = cands[j] => res[i] = res[j]
        /\ \A e \in evidence :
              \A i \in DOMAIN cands :
                 (e.kind = kind /\ e.spec = spec_id /\ e.cand = cands[i])
                    => res[i] = e.val}

\* a mutant: a worker that scores the spectrum itself instead of a copy of it
\* leaves nothing a later call for the same arguments has to agree with
recorded_nowhere(kind, cands, spec_id, res) == evidence

\* lines 142-161 and 207-215: the workers are functions of the candidate and
\* of the spectrum, which decoy_features copies before it scores it
Recorded(kind, cands, spec_id, res) ==
    IF track_evidence
    THEN evidence \cup {[kind |-> kind, spec |-> spec_id, cand |-> cands[i],
                         val |-> res[i]] : i \in DOMAIN cands}
    ELSE evidence

\* a mutant: the stored decoy is replaced by one that scores the same
replaces_on_equal(psm, score) ==
    psm.decoy_id = <<>> \/ psm.decoy_id[1].features.MatchScore <= score

\* lines 630-632: whether the decoy of the identification is replaced
replaces(psm, score) ==
    psm.decoy_id = <<>> \/ psm.decoy_id[1].features.MatchScore < score

\* a mutant: the last of the candidates that score highest
last_max_at(values) ==
    CHOOSE k \in DOMAIN values :
        /\ \A j \in DOMAIN values : values[j] <= values[k]
        /\ \A j \in (k + 1)..Len(values) : values[j] < values[k]

\* a mutant: the first candidate, whatever it scores
first_match_at(values) == 1

\* lines 626 and 633: the position in d_candidates of max_match
max_match_at(scores) == first_max_at(scores)

NoGroup ==
    /\ peptide' = None
    /\ charge' = 0
    /\ spectra' = <<>>
    /\ max_spec' = NoCount
    /\ pep_mz' = 0
    /\ tight_count' = NoCount
    /\ searched_wide' = FALSE
    /\ d_candidates' = <<>>
    /\ cand_num_ions' = <<>>
    /\ spec_at' = 0
    /\ dpsm_vars' = <<>>

\* validate, lines 337-339, entering _generate_decoy_matches for the next
\* target residue: lines 506-550
BeginResidue ==
    /\ apc = "validate"
    /\ residues_left # <<>>
    /\ target_res' = Head(residues_left)
    /\ fixed_aas' = fixed_aas_of(fixed_residues, target_res')
    /\ \E seqs \in ListingsOf(get_decoys(decoy_db, target_res')) :
          decoys' = generate_residue_decoys(seqs, target_res', fixed_aas',
                                            fixed_residues)
    /\ slices' = slice_list(decoys'.masses, Len(decoys'.masses) \div SliceSize)
    /\ LET masses == var_ptm_masses_of(uniprot, fixed_aas')
       IN  IF var_ptms_raises(masses)
           THEN var_ptms' = NoVarPTMs /\ apc' = "raised" /\ peptides_left' = {}
           ELSE /\ var_ptms' = VarPTMs(masses)
                /\ apc' = "peptides"
                /\ peptides_left' = {psms[k].pep : k \in DOMAIN psms}
    /\ dpc' = "ready"
    /\ UNCHANGED <<ptmVars, decoy_db, fixed_residues, uniprot, peptide_mz, tol_factor,
                   candidates, ionVars, poolVars, target_residues, psms, residues_left,
                   peptide, charges_left, charge, spectra, max_spec, pep_mz,
                   tight_count, searched_wide, d_candidates, cand_num_ions,
                   spec_at, dpsm_vars, evidence, track_evidence, first_run,
                   run>>

\* lines 552-562: the next peptide string of pep_strs_set, in any order
NextPeptide ==
    /\ apc = "peptides"
    /\ \E pep \in peptides_left :
          /\ peptide' = pep
          /\ peptides_left' = peptides_left \ {pep}
          /\ charges_left' = {psms[idx + 1].charge : idx \in Range(pep_idxs_of(pep))}
    /\ apc' = "charges"
    /\ UNCHANGED <<ptmVars, ionVars, poolVars, decoyVars, target_residues, psms, residues_left,
                   charge, spectra, max_spec, pep_mz, tight_count, searched_wide,
                   d_candidates, cand_num_ions, spec_at, dpsm_vars, evidence,
                   track_evidence, first_run, run>>

\* a mutant: the precursor m/z of the spectrum with the highest base peak
mz_of_representative(pep, z) ==
    IF spectra_of(pep, z) = <<>> THEN 0
    ELSE psms[max_spec_of(spectra_of(pep, z)) + 1].spectrum[1].precursor_mz

\* lines 572-573: the m/z calculated for the first identification of the
\* peptide with the charge
mz_of_group(pep, z) == calculate_mz(psms[charge_pep_idxs_of(pep, z)[1] + 1], z)

\* lines 564-585: the next charge of charge_states, in any order; the
\* spectra of the group and the one with the highest base peak intensity
NextCharge ==
    /\ apc = "charges"
    /\ \E z \in charges_left :
          /\ charge' = z
          /\ charges_left' = charges_left \ {z}
          /\ pep_mz' = mz_of_group(peptide, z)
          /\ spectra' = spectra_of(peptide, z)
          /\ IF spectra' = <<>>
             THEN max_spec' = NoCount /\ apc' = "charges"
             ELSE max_spec' = max_spec_of(spectra') /\ apc' = "search"
    /\ tight_count' = NoCount
    /\ searched_wide' = FALSE
    /\ d_candidates' = <<>>
    /\ cand_num_ions' = <<>>
    /\ spec_at' = 0
    /\ dpsm_vars' = <<>>
    /\ UNCHANGED <<ptmVars, ionVars, poolVars, decoyVars, target_residues, psms, residues_left,
                   peptides_left, peptide, evidence, track_evidence, first_run,
                   run>>

\* a mutant: a group without candidates is not skipped
group_never_skipped(cands) == FALSE

\* lines 595-596: the group is skipped when the search found no candidate
group_skipped(cands) == cands = <<>>

\* lines 587-596: the search of the mass slices, in one or two passes
SearchGroup ==
    /\ apc = "search"
    /\ IF match_raises(pep_mz, slices, var_ptms)
       THEN /\ apc' = "raised"
            /\ UNCHANGED <<ptmVars, tight_count, searched_wide, d_candidates, decoys>>
       ELSE /\ tight_count' = Len(match_decoys(pep_mz, decoys, slices, var_ptms,
                                               TightTol))
            /\ searched_wide' = (tight_count' < MinCandidates)
            /\ d_candidates' = search(pep_mz, decoys, slices, var_ptms)
            /\ decoys' =
                  LET tight == pool_after_match(decoys, slices, var_ptms,
                                                pep_mz, TightTol)
                  IN  IF searched_wide'
                      THEN pool_after_match(tight, slices, var_ptms, pep_mz,
                                            WideTol)
                      ELSE tight
            /\ apc' = IF group_skipped(d_candidates') THEN "charges"
                      ELSE "prefilter"
    /\ UNCHANGED <<ptmVars, ionVars, poolVars, decoy_db, fixed_residues, uniprot,
                   target_res, fixed_aas, slices, var_ptms, peptide_mz,
                   tol_factor, candidates, dpc, target_residues, psms,
                   residues_left,
                   peptides_left, peptide, charges_left, charge, spectra,
                   max_spec, pep_mz, cand_num_ions, spec_at, dpsm_vars, evidence,
                   track_evidence, first_run, run>>

\* lines 598-613: the ions matched per candidate against max_spec, and the
\* top candidates by that number
Prefilter ==
    /\ apc = "prefilter"
    /\ \E counts \in WorkerResults("ions", d_candidates,
                                   psms[max_spec + 1].spectrum[1].id, MaxIonCount) :
          /\ cand_num_ions' = counts
          /\ d_candidates' = top_candidates(d_candidates, counts)
          /\ evidence' = Recorded("ions", d_candidates,
                                  psms[max_spec + 1].spectrum[1].id, counts)
    /\ spec_at' = 0
    /\ dpsm_vars' = <<>>
    /\ apc' = "score"
    /\ UNCHANGED <<ptmVars, ionVars, poolVars, decoyVars, target_residues, psms, residues_left,
                   peptides_left, peptide, charges_left, charge, spectra,
                   max_spec, pep_mz, tight_count, searched_wide, track_evidence,
                   first_run, run>>

\* lines 617-636, one iteration: the features of every candidate against the
\* spectrum, the candidate with the highest MatchScore, and the decoy_id of
\* the identification
ScoreSpectrum ==
    /\ apc = "score"
    /\ spec_at < Len(spectra)
    /\ LET idx == spectra[spec_at + 1].idx
           spec_id == psms[idx + 1].spectrum[1].id
       IN  \E scores \in WorkerResults("score", d_candidates, spec_id, MaxMatchScore) :
              LET at == max_match_at(scores)
                  d_peptide == d_candidates[at]
              IN  /\ psms' = IF replaces(psms[idx + 1], scores[at])
                             THEN [psms EXCEPT ![idx + 1].decoy_id =
                                      <<DecoyID(d_peptide.seq, d_peptide.charge,
                                                d_peptide.mods,
                                                [MatchScore |-> scores[at]])>>]
                             ELSE psms
                  /\ evidence' = Recorded("score", d_candidates, spec_id, scores)
                  /\ dpsm_vars' = scores
    /\ spec_at' = spec_at + 1
    /\ apc' = IF spec_at' = Len(spectra) THEN "charges" ELSE "score"
    /\ UNCHANGED <<ptmVars, ionVars, poolVars, decoyVars, target_residues, residues_left,
                   peptides_left, peptide, charges_left, charge, spectra,
                   max_spec, pep_mz, tight_count, searched_wide, d_candidates,
                   cand_num_ions, track_evidence, first_run, run>>

\* line 602, a worker call of the pool.map raises: the map raises it again
\* in the caller, and nothing in _generate_decoy_matches or validate catches
\* it
PrefilterRaises ==
    /\ apc = "prefilter"
    /\ apc' = "raised"
    /\ UNCHANGED <<ptmVars, ionVars, poolVars, decoyVars, target_residues, psms, residues_left,
                   groupVars, evidence, track_evidence, first_run, run>>

\* a mutant: the decoy of the identification is set from the features
\* returned before the failing worker call
ScoreSpectrumPartial ==
    /\ apc = "score"
    /\ spec_at < Len(spectra)
    /\ Len(d_candidates) >= 2
    /\ LET idx == spectra[spec_at + 1].idx
           spec_id == psms[idx + 1].spectrum[1].id
           done == SubSeq(d_candidates, 1, Len(d_candidates) - 1)
       IN  \E scores \in WorkerResults("score", done, spec_id, MaxMatchScore) :
              LET at == max_match_at(scores)
              IN  psms' = IF replaces(psms[idx + 1], scores[at])
                          THEN [psms EXCEPT ![idx + 1].decoy_id =
                                   <<DecoyID(done[at].seq, done[at].charge,
                                             done[at].mods,
                                             [MatchScore |-> scores[at]])>>]
                          ELSE psms
    /\ apc' = "raised"
    /\ UNCHANGED <<ptmVars, ionVars, poolVars, decoyVars, target_residues, residues_left,
                   groupVars, evidence, track_evidence, first_run, run>>

\* line 623, a worker call of the pool.map raises: the map raises it again
\* before lines 626-636 are reached
ScoreSpectrumRaises ==
    /\ apc = "score"
    /\ spec_at < Len(spectra)
    /\ apc' = "raised"
    /\ UNCHANGED <<ptmVars, ionVars, poolVars, decoyVars, target_residues, psms, residues_left,
                   groupVars, evidence, track_evidence, first_run, run>>

\* the loop over charge_states is exhausted: back to the loop over peptides
EndPeptide ==
    /\ apc = "charges"
    /\ charges_left = {}
    /\ apc' = "peptides"
    /\ UNCHANGED <<ptmVars, ionVars, poolVars, decoyVars, target_residues, psms, residues_left,
                   groupVars, evidence, track_evidence, first_run, run>>

\* line 638: the loop over pep_strs_set is exhausted, the call returns psms;
\* lines 337-339: after the call for the last target residue, self.psms is
\* the chain of the lists the calls returned, each of them the list psms
EndResidue ==
    /\ apc = "peptides"
    /\ peptides_left = {}
    /\ residues_left' = Tail(residues_left)
    /\ apc' = IF residues_left' = <<>> THEN "validated" ELSE "validate"
    /\ psms' = IF residues_left' = <<>>
               THEN ConcatMap([n \in 1..Len(target_residues) |-> psms],
                              1, Len(target_residues))
               ELSE psms
    /\ NoGroup
    /\ UNCHANGED <<ptmVars, ionVars, poolVars, decoyVars, target_residues, peptides_left,
                   charges_left, evidence, track_evidence, first_run, run>>

\* the program is run again on the same inputs: the decoy assignments of the
\* first run are set aside
RunAgain ==
    /\ apc = "validated"
    /\ track_evidence
    /\ run = 1
    /\ first_run' = [k \in DOMAIN psms |-> psms[k].decoy_id]
    /\ psms' = [k \in DOMAIN psms |-> [psms[k] EXCEPT !.decoy_id = <<>>]]
    /\ residues_left' = target_residues
    /\ run' = 2
    /\ apc' = "validate"
    /\ UNCHANGED <<ptmVars, ionVars, poolVars, decoyVars, target_residues, groupVars, evidence,
                   track_evidence>>

\* _generate_decoy_matches is called again for the same target residue on the
\* list it returned: lines 506-545 build the same fixed_aas, decoys, slices
\* and var_ptms, and the loop of lines 546-636 starts over the identifications
\* as the first call left them
CallAgain ==
    /\ apc = "validated"
    /\ track_evidence
    /\ run = 1
    /\ Len(target_residues) = 1
    /\ first_run' = [k \in DOMAIN psms |-> psms[k].decoy_id]
    /\ peptides_left' = {psms[k].pep : k \in DOMAIN psms}
    /\ residues_left' = target_residues
    /\ run' = 2
    /\ apc' = "peptides"
    /\ NoGroup
    /\ UNCHANGED <<ptmVars, ionVars, poolVars, decoyVars, target_residues, psms,
                   charges_left, evidence, track_evidence>>

(***************************************************************************)
(* The two pool.map calls, task by task                                    *)
(***************************************************************************)
\* a mutant: the results in the order in which the calls returned
results_as_completed(vals, order) == [k \in DOMAIN order |-> vals[order[k]]]

\* Pool.map: the list of the results, in the order of the iterable it was
\* given, whatever the order in which the worker calls returned
map_results(vals, order) == [i \in DOMAIN vals |-> vals[i]]

NoMap ==
    /\ map_kind' = None
    /\ task_vals' = <<>>
    /\ returned' = {}
    /\ completed' = <<>>

\* line 602: pool.map(_count_matched_ions, d_candidates) is called
SubmitPrefilter ==
    /\ apc = "prefilter"
    /\ map_kind' = "ions"
    /\ task_vals' \in WorkerResults("ions", d_candidates,
                                    psms[max_spec + 1].spectrum[1].id, MaxIonCount)
    /\ returned' = {}
    /\ completed' = <<>>
    /\ apc' = "mapping"
    /\ UNCHANGED <<ptmVars, ionVars, decoyVars, target_residues, psms, residues_left,
                   groupVars, evidence, track_evidence, first_run, run>>

\* line 623: pool.map(_decoy_features, d_candidates) is called for the next
\* spectrum of the group
SubmitFeatures ==
    /\ apc = "score"
    /\ spec_at < Len(spectra)
    /\ map_kind' = "score"
    /\ task_vals' \in WorkerResults("score", d_candidates,
                                    psms[spectra[spec_at + 1].idx + 1].spectrum[1].id,
                                    MaxMatchScore)
    /\ returned' = {}
    /\ completed' = <<>>
    /\ apc' = "mapping"
    /\ UNCHANGED <<ptmVars, ionVars, decoyVars, target_residues, psms, residues_left,
                   groupVars, evidence, track_evidence, first_run, run>>

\* the call of one of the candidates returns in a worker process: the
\* worker has its own copy of the candidate and of the spectrum (lines
\* 142-161, 207-215) and writes nothing else
WorkerReturns ==
    /\ apc = "mapping"
    /\ \E i \in DOMAIN task_vals \ returned :
          /\ returned' = returned \cup {i}
          /\ completed' = Append(completed, i)
    /\ UNCHANGED <<ptmVars, ionVars, decoyVars, assignVars, map_kind, task_vals>>

\* lines 602-613: the map of the prefilter returns once every call has
\* returned; the candidates are ranked in the calling process
CollectPrefilter ==
    /\ apc = "mapping"
    /\ map_kind = "ions"
    /\ returned = DOMAIN task_vals
    /\ LET counts == map_results(task_vals, completed)
       IN  /\ cand_num_ions' = counts
           /\ d_candidates' = top_candidates(d_candidates, counts)
           /\ evidence' = Recorded("ions", d_candidates,
                                   psms[max_spec + 1].spectrum[1].id, counts)
    /\ spec_at' = 0
    /\ dpsm_vars' = <<>>
    /\ apc' = "score"
    /\ NoMap
    /\ UNCHANGED <<ptmVars, ionVars, decoyVars, target_residues, psms, residues_left,
                   peptides_left, peptide, charges_left, charge, spectra,
                   max_spec, pep_mz, tight_count, searched_wide, track_evidence,
                   first_run, run>>

\* lines 623-636: the map of the features returns once every call has
\* returned; the best candidate is found and the decoy_id of the
\* identification is set in the calling process
CollectFeatures ==
    /\ apc = "mapping"
    /\ map_kind = "score"
    /\ returned = DOMAIN task_vals
    /\ LET idx == spectra[spec_at + 1].idx
           spec_id == psms[idx + 1].spectrum[1].id
           scores == map_results(task_vals, completed)
           at == max_match_at(scores)
           d_peptide == d_candidates[at]
       IN  /\ psms' = IF replaces(psms[idx + 1], scores[at])
                      THEN [psms EXCEPT ![idx + 1].decoy_id =
                               <<DecoyID(d_peptide.seq, d_peptide.charge,
                                         d_peptide.mods,
                                         [MatchScore |-> scores[at]])>>]
                      ELSE psms
           /\ evidence' = Recorded("score", d_candidates, spec_id, scores)
           /\ dpsm_vars' = scores
    /\ spec_at' = spec_at + 1
    /\ apc' = IF spec_at' = Len(spectra) THEN "charges" ELSE "score"
    /\ NoMap
    /\ UNCHANGED <<ptmVars, ionVars, decoyVars, target_residues, residues_left,
                   peptides_left, peptide, charges_left, charge, spectra,
                   max_spec, pep_mz, tight_count, searched_wide, d_candidates,
                   cand_num_ions, track_evidence, first_run, run>>

\* _generate_decoy_matches with its two maps taken task by task
PoolNext ==
    \/ BeginResidue
    \/ NextPeptide
    \/ NextCharge
    \/ SearchGroup
    \/ SubmitPrefilter
    \/ SubmitFeatures
    \/ WorkerReturns
    \/ CollectPrefilter
    \/ CollectFeatures
    \/ EndPeptide
    \/ EndResidue

AssignNext ==
    \/ BeginResidue
    \/ NextPeptide
    \/ NextCharge
    \/ SearchGroup
    \/ Prefilter
    \/ PrefilterRaises
    \/ ScoreSpectrum
    \/ ScoreSpectrumRaises
    \/ EndPeptide
    \/ EndResidue

RunsNext == AssignNext \/ RunAgain

CallsNext == AssignNext \/ CallAgain

(***************************************************************************)
(* Initial states and specifications                                       *)
(***************************************************************************)
(***************************************************************************)
(* readers.PTMDB: add_entry and get_mass                                   *)
(***************************************************************************)
\* the bound on the number of add_entry calls
MaxEntries == 3

\* a row of the UniMod file: its two name fields, its Description and its
\* two masses; a field is the tuple of its characters
Row(psi, interim, description, mono, avg) ==
    [psi |-> psi, interim |-> interim, description |-> description,
     mono |-> mono, avg |-> avg]

\* the rows the model adds: the PSI-MS name of the third is the interim name
\* of the first, the first and the fourth share their PSI-MS name, the
\* Description of the second is the interim name of the first without
\* regard to case
PtmRows == {
    Row(<<"A">>, <<"A", "b">>, <<"A", " ", "b", " ", "c">>, 10, 11),
    Row(<<"B">>, <<"a">>, <<"a", "b">>, 20, 21),
    Row(<<"A", "b">>, <<"B">>, <<"A", " ", "B">>, 30, 31),
    Row(<<"A">>, <<"c">>, <<"C", " ", "a">>, 40, 41) }

\* the names get_mass is asked for
PtmNames == {
    <<"A">>, <<"A", "b">>, <<"a">>, <<"B">>, <<"c">>, <<"a", " ", "B">>,
    <<"A", " ", "b", " ", "c">>, <<"C", "a">>, <<"C">>, <<"D", "e", "l", "t", "a">> }

MassTypes == {"mono", "avg"}

\* str.lower() on the letters of the model
lower_char(ch) ==
    CASE ch = "A" -> "a"
      [] ch = "B" -> "b"
      [] ch = "C" -> "c"
      [] ch = "D" -> "d"
      [] OTHER -> ch

lower(name) == [i \in DOMAIN name |-> lower_char(name[i])]

\* str.replace(' ', '')
without_spaces(name) ==
    ConcatMap([i \in 1..Len(name) |->
                  IF name[i] = " " THEN <<>> ELSE <<name[i]>>], 1, Len(name))

\* str.startswith("delta")
startswith_delta(name) ==
    Len(name) >= 5 /\ SubSeq(name, 1, 5) = <<"d", "e", "l", "t", "a">>

\* dict[key] = pos
dict_set(dict, key, pos) == (key :> pos) @@ dict

\* dict.get(key, None), None as <<>>
dict_get(dict, key) == IF key \in DOMAIN dict THEN <<dict[key]>> ELSE <<>>

\* lines 126-134: self._data before any row is added
EmptyData ==
    [mono |-> <<>>, avg |-> <<>>, psi |-> <<>>, interim |-> <<>>,
     desc |-> <<>>]

\* line 154: entry[key] with key left at the last of _name_keys by the loop
\* of lines 152-153, 'Interim name', without spaces and in lower case
desc_key_of(entry) == lower(without_spaces(entry.interim))

\* PTMDB.add_entry, lines 141-154
add_entry(data, entry) ==
    LET pos == Len(data.mono)
    IN  [mono |-> Append(data.mono, entry.mono),
         avg |-> Append(data.avg, entry.avg),
         psi |-> dict_set(data.psi, entry.psi, pos),
         interim |-> dict_set(data.interim, entry.interim, pos),
         desc |-> dict_set(data.desc, desc_key_of(entry), pos)]

\* parse_mod_formula, lines 92-106, of a name that holds no "(count)" group:
\* the sum of no terms
parse_mod_formula(name, mass_type) == 0

\* PTMDB.get_mass, lines 156-181
get_mass(data, name, mass_type) ==
    LET masses == IF mass_type = "mono" THEN data.mono ELSE data.avg
        by_psi == dict_get(data.psi, name)
        by_interim == dict_get(data.interim, name)
        stripped == without_spaces(name)
        by_desc == dict_get(data.desc, lower(stripped))
    IN  IF by_psi # <<>> THEN <<masses[by_psi[1] + 1]>>
        ELSE IF by_interim # <<>> THEN <<masses[by_interim[1] + 1]>>
        ELSE IF startswith_delta(lower(stripped))
             THEN <<parse_mod_formula(stripped, mass_type)>>
        ELSE IF by_desc # <<>> THEN <<masses[by_desc[1] + 1]>>
        ELSE <<>>

\* a call of add_entry with a row of the file
AddEntry ==
    /\ ptc \in {"open", "answered"}
    /\ Len(ptm_entries) < MaxEntries
    /\ \E entry \in PtmRows :
          /\ ptm_data' = add_entry(ptm_data, entry)
          /\ ptm_entries' = Append(ptm_entries, entry)
    /\ ptc' = "open"
    /\ UNCHANGED <<ptm_asked, ptm_got, ionVars, decoyVars, assignVars,
                   poolVars>>

\* a call of get_mass
GetMass ==
    /\ ptc \in {"open", "answered"}
    /\ \E name \in PtmNames : \E mass_type \in MassTypes :
          /\ ptm_asked' = [name |-> name, mass_type |-> mass_type]
          /\ ptm_got' = get_mass(ptm_data, name, mass_type)
    /\ ptc' = "answered"
    /\ UNCHANGED <<ptm_data, ptm_entries, ionVars, decoyVars, assignVars,
                   poolVars>>

PtmNext == AddEntry \/ GetMass

NoAsked == [name |-> <<>>, mass_type |-> "mono"]

PtmIdle ==
    /\ ptm_data = EmptyData
    /\ ptm_entries = <<>>
    /\ ptm_asked = NoAsked
    /\ ptm_got = <<>>
    /\ ptc = "idle"

\* PTMDB.__init__, lines 126-134, before the rows of the file are added
PtmStart ==
    /\ ptm_data = EmptyData
    /\ ptm_entries = <<>>
    /\ ptm_asked = NoAsked
    /\ ptm_got = <<>>
    /\ ptc = "open"

PoolIdle ==
    /\ map_kind = None
    /\ task_vals = <<>>
    /\ returned = {}
    /\ completed = <<>>

IonIdle ==
    /\ ion_mzs = <<>>
    /\ spec_mz = <<>>
    /\ num_ions = NoCount
    /\ prev_ions = NoCount
    /\ ipc = "idle"

AssignIdle ==
    /\ target_residues = <<>>
    /\ psms = <<>>
    /\ residues_left = <<>>
    /\ peptides_left = {}
    /\ peptide = None
    /\ charges_left = {}
    /\ charge = 0
    /\ spectra = <<>>
    /\ max_spec = NoCount
    /\ pep_mz = 0
    /\ tight_count = NoCount
    /\ searched_wide = FALSE
    /\ d_candidates = <<>>
    /\ cand_num_ions = <<>>
    /\ spec_at = 0
    /\ dpsm_vars = <<>>
    /\ evidence = {}
    /\ track_evidence = FALSE
    /\ first_run = <<>>
    /\ run = 1
    /\ apc = "idle"

\* the decoy database of the runs of validate: two sequences of one mass
\* and a heavier one that holds the target residues more than once
AssignDatabase == <<
    <<"P", "E", "P", "T", "I", "D", "E", "K">>,
    <<"K", "E", "D", "I", "T", "P", "E", "P">>,
    <<"K", "P", "E", "P", "T", "I", "D", "E", "T", "K", "T">> >>

NoSpectrum == <<>>

\* identifications of one peptide whose search finds more candidates than
\* are kept, with the tight tolerance; one of them has no spectrum
TightGroup == <<
    PSM("pepA", 98536, 4, <<Spectrum("s0", 95, 24736)>>),
    PSM("pepA", 98536, 4, <<Spectrum("s1", 200, 24735)>>),
    PSM("pepA", 98536, 4, NoSpectrum) >>

\* identifications of a peptide whose search of NearDatabase finds one
\* candidate with the tight tolerance and two with the wide tolerance, of
\* one in two charge states that finds none, of one
\* without any spectrum
WideGroups == <<
    PSM("pepB", 100340, 4, <<Spectrum("s3", 120, 25186)>>),
    PSM("pepC", 40000, 2, <<Spectrum("s4", 120, 20101)>>),
    PSM("pepC", 40000, 2, <<Spectrum("s5", 95, 20101)>>),
    PSM("pepC", 40000, 2, <<Spectrum("s6", 200, 20102)>>),
    PSM("pepC", 40000, 3, <<Spectrum("s7", 200, 13434)>>),
    PSM("pepC", 40000, 3, <<Spectrum("s8", 200, 13434)>>),
    PSM("pepD", 40000, 3, NoSpectrum) >>

\* the identifications of a run with two target residues
TwoResidues == <<
    PSM("pepE", 100336, 4, <<Spectrum("s0", 120, 25185)>>),
    PSM("pepB", 100348, 4, <<Spectrum("s1", 150, 25188)>>) >>

\* the identifications of the runs that are repeated on the same inputs
OneGroup == <<
    PSM("pepE", 100336, 4, <<Spectrum("s0", 120, 25185)>>) >>

AssignStart(residues, identifications, track) ==
    /\ target_residues = residues
    /\ psms = identifications
    /\ residues_left = residues
    /\ peptides_left = {}
    /\ peptide = None
    /\ charges_left = {}
    /\ charge = 0
    /\ spectra = <<>>
    /\ max_spec = NoCount
    /\ pep_mz = 0
    /\ tight_count = NoCount
    /\ searched_wide = FALSE
    /\ d_candidates = <<>>
    /\ cand_num_ions = <<>>
    /\ spec_at = 0
    /\ dpsm_vars = <<>>
    /\ evidence = {}
    /\ track_evidence = track
    /\ first_run = <<>>
    /\ run = 1
    /\ apc = "validate"

ContextStart(rows) ==
    /\ decoy_db = rows
    /\ fixed_residues = NoFixed
    /\ uniprot \in UniprotTables
    /\ target_res = None
    /\ fixed_aas = <<>>
    /\ decoys = NoDecoys
    /\ slices = NoSlices
    /\ var_ptms = NoVarPTMs
    /\ peptide_mz = 0
    /\ tol_factor = 0
    /\ candidates = <<>>
    /\ dpc = "config"

\* the specification of validate's decoy matching
Init ==
    /\ IonIdle
    /\ PoolIdle
    /\ PtmIdle
    /\ \/ ContextStart(AssignDatabase) /\ AssignStart(<<"T">>, TightGroup, FALSE)
       \/ ContextStart(NearDatabase) /\ AssignStart(<<"T">>, WideGroups, FALSE)
       \/ ContextStart(AssignDatabase)
             /\ AssignStart(<<"T", "K">>, TwoResidues, FALSE)

Next == AssignNext

Spec == Init /\ [][Next]_vars

\* the specification of two runs of validate on the same inputs
RunsInit ==
    /\ IonIdle
    /\ PoolIdle
    /\ PtmIdle
    /\ ContextStart(AssignDatabase)
    /\ AssignStart(<<"T">>, OneGroup, TRUE)

SpecRuns == RunsInit /\ [][RunsNext]_vars

\* the specification of two calls of _generate_decoy_matches, the second with
\* the search context and on the identifications of the first
CallsInit ==
    /\ IonIdle
    /\ PoolIdle
    /\ PtmIdle
    /\ ContextStart(AssignDatabase)
    /\ AssignStart(<<"T">>, TwoResidues, TRUE)

SpecCalls == CallsInit /\ [][CallsNext]_vars

\* identifications of two peptides, one of them in two charge states
OrderGroups == <<
    PSM("pepE", 100336, 4, <<Spectrum("s0", 120, 25185)>>),
    PSM("pepB", 100348, 4, <<Spectrum("s1", 150, 25188)>>),
    PSM("pepE", 100336, 3, <<Spectrum("s2", 150, 33546)>>),
    PSM("pepE", 100336, 4, <<Spectrum("s3", 200, 25185)>>) >>

\* the specification of one call of _generate_decoy_matches whose workers
\* return the same result whenever they are given the same arguments
OrdersInit ==
    /\ IonIdle
    /\ PoolIdle
    /\ PtmIdle
    /\ ContextStart(AssignDatabase)
    /\ AssignStart(<<"T">>, OrderGroups, TRUE)

SpecOrders == OrdersInit /\ [][AssignNext]_vars

\* the specification of a run of validate whose maps are taken task by task
PoolInit ==
    /\ IonIdle
    /\ PoolIdle
    /\ PtmIdle
    /\ ContextStart(AssignDatabase)
    /\ AssignStart(<<"T">>, TightGroup, FALSE)

SpecPool == PoolInit /\ [][PoolNext]_vars

\* the specification of count_matched_ions on bounded inputs
IonInit ==
    /\ IonStart
    /\ DecoyStart
    /\ decoy_db = <<>>
    /\ target_res = None
    /\ fixed_residues = NoFixed
    /\ AssignIdle
    /\ PoolIdle
    /\ PtmIdle

SpecIons == IonInit /\ [][IonNext]_vars

\* fixed-modification tables with both termini, with one of them and with
\* neither
TerminiTables == {
    [r \in {"nterm", "cterm", "K"} |-> "iTRAQ8plex"],
    [r \in {"nterm", "K"} |-> "iTRAQ8plex"],
    [r \in {"cterm", "K"} |-> "iTRAQ8plex"],
    [r \in {"K"} |-> "iTRAQ8plex"] }

\* the specification of the search context for those tables
TerminiInit ==
    /\ decoy_db \in {TwoSequences, NearDatabase}
    /\ fixed_residues \in TerminiTables
    /\ uniprot \in UniprotTables
    /\ target_res \in TargetChoices
    /\ fixed_aas = <<>>
    /\ decoys = NoDecoys
    /\ slices = NoSlices
    /\ var_ptms = NoVarPTMs
    /\ peptide_mz = 0
    /\ tol_factor = 0
    /\ candidates = <<>>
    /\ dpc = "config"
    /\ IonIdle
    /\ AssignIdle
    /\ PoolIdle
    /\ PtmIdle

SpecTermini == TerminiInit /\ [][DecoyNext]_vars

\* the specification of a PTMDB: rows are added and masses are asked for
PtmInit ==
    /\ PtmStart
    /\ IonIdle
    /\ PoolIdle
    /\ AssignIdle
    /\ DecoyStart
    /\ decoy_db = <<>>
    /\ target_res = None
    /\ fixed_residues = NoFixed
    /\ uniprot = CHOOSE t \in UniprotTables : TRUE

SpecPTM == PtmInit /\ [][PtmNext]_vars

\* the specification of the search context and of match_decoys
DecoyInit == DecoyStart /\ IonIdle /\ AssignIdle /\ PoolIdle /\ PtmIdle

SpecDecoys == DecoyInit /\ [][DecoyNext]_vars

----------------------------------------------------------------------------
\* C7: for an ascending ion list, count_matched_ions is the number of peak
\* positions whose peak has some theoretical ion within the tolerance
\* (|ion - peak| <= 0.2); it lies in 0..number of peaks and is 0 when there
\* is no theoretical ion.
C7_CountIsPeaksNearAnIon ==
    ipc # "start" =>
        /\ num_ions = Cardinality({k \in DOMAIN spec_mz :
              \E i \in DOMAIN ion_mzs :
                 /\ ion_mzs[i] - spec_mz[k] <= IonTol
                 /\ spec_mz[k] - ion_mzs[i] <= IonTol})
        /\ num_ions \in 0..Len(spec_mz)
        /\ (ion_mzs = <<>> => num_ions = 0)

\* C7 witness: a count taken where a peak is matched only by the ion below
\* its insertion point, another peak is matched by none
C7_Witness ==
    /\ ipc = "counted"
    /\ Len(ion_mzs) = 2
    /\ \E k \in DOMAIN spec_mz :
          /\ spec_mz[k] > ion_mzs[2]
          /\ spec_mz[k] - ion_mzs[2] <= IonTol
    /\ \E k \in DOMAIN spec_mz :
          \A i \in DOMAIN ion_mzs :
             \/ ion_mzs[i] - spec_mz[k] > IonTol
             \/ spec_mz[k] - ion_mzs[i] > IonTol
    /\ num_ions \in 1..(Len(spec_mz) - 1)

\* C8: reordering the peak list leaves the count unchanged, and adding a
\* peak at the m/z of a theoretical ion never lowers it.
C8_ReorderAndAddPeak ==
    /\ (ipc = "reordered" => num_ions = prev_ions)
    /\ (ipc = "added" => num_ions >= prev_ions)

\* C8 witness: a genuinely reordered peak list with matched and unmatched peaks
C8_Witness ==
    /\ ipc = "reordered"
    /\ Len(spec_mz) >= 2
    /\ spec_mz[1] > spec_mz[2]
    /\ num_ions \in 1..(Len(spec_mz) - 1)

\* C8 second case reached: a peak added at an ion's m/z raised the count
C8_WitnessAdded ==
    /\ ipc = "added"
    /\ num_ions = prev_ions + 1
    /\ prev_ions >= 1


----------------------------------------------------------------------------
(***************************************************************************)
(* Claims about the search context and match_decoys (SpecDecoys)           *)
(***************************************************************************)
Positions == 0..(Len(decoys.masses) - 1)

\* the positions a full linear scan of the mass array selects
linear_scan(lo, hi) == {p \in Positions : decoys.masses[p + 1] >= lo
                                          /\ decoys.masses[p + 1] <= hi}

\* C1: whenever match_decoys returns, for every charge c in {2,3,4} the
\* positions the fixed-mod tier selects through the slice bounds are exactly
\* the positions whose mass lies in [M - t, M + t], M = m/z * c and
\* t = tol_factor * c, as a full linear scan of the mass array selects them.
C1_FixedTierEqualsLinearScan ==
    dpc = "matched" =>
        \A c \in Range(MatchCharges) :
            Range(fixed_seq_idxs(decoys, slices, peptide_mz * c, tol_factor * c))
              = linear_scan(peptide_mz * c - tol_factor * c,
                            peptide_mz * c + tol_factor * c)

\* C1: the case of the claim is reached: a search that returned, with a decoy
\* mass inside the tolerance window of one of the charges
C1_Witness ==
    /\ dpc = "matched"
    /\ \E c \in Range(MatchCharges) :
          linear_scan(peptide_mz * c - tol_factor * c,
                      peptide_mz * c + tol_factor * c) # {}

RECURSIVE Binomial(_, _)
Binomial(n, k) ==
    IF k = 0 THEN 1
    ELSE IF n < k THEN 0
    ELSE Binomial(n - 1, k - 1) + Binomial(n - 1, k)

\* the 1-based sites at which the pool sequence k (1-based) holds the target
target_sites(k) == {i \in DOMAIN decoys.seqs[k] : decoys.seqs[k][i] = target_res}

\* the positions of the index that belong to the pool sequence k (1-based)
positions_of(k) == {p \in Positions : decoys.idxs[p + 1] = k - 1}

\* the sites of the target modification among the mods at position p
target_sites_at(p) ==
    {decoys.mods[p + 1][n].site : n \in {n \in DOMAIN decoys.mods[p + 1] :
                                      decoys.mods[p + 1][n].name = target_mod}}

\* water + residue masses + fixed-modification masses of the pool sequence k
base_mass(k) ==
    FIXED_H2O
    + SumSeq([i \in DOMAIN decoys.seqs[k] |-> aa_mono(decoys.seqs[k][i])])
    + (IF "nterm" \in DOMAIN fixed_residues
       THEN unimod_get_mass(fixed_residues["nterm"]) ELSE 0)
    + SumSeq([i \in DOMAIN decoys.seqs[k] |->
                IF decoys.seqs[k][i] \in DOMAIN fixed_residues
                THEN unimod_get_mass(fixed_residues[decoys.seqs[k][i]]) ELSE 0])

ContextBuilt == dpc \in {"ready", "matched", "raised"}

\* C2: in a target-residue context, a sequence with k occurrences of the
\* target residue has exactly sum over s in 1..min(3,k) of C(k,s) variants,
\* one for each non-empty set of at most 3 of its target sites and none
\* twice, and each variant's mass is water + residue masses + fixed-mod
\* masses + mod_mass * (size of the set).
C2_VariantsPerSequence ==
    (ContextBuilt /\ target_res # None) =>
        \A k \in DOMAIN decoys.seqs :
            LET sites == target_sites(k)
                n == Cardinality(sites)
                subsets == {S \in SUBSET sites :
                               Cardinality(S) \in 1..Min2(MaxTargetMods, n)}
            IN  /\ Cardinality(positions_of(k))
                     = SumSeq([s \in 1..Min2(MaxTargetMods, n) |-> Binomial(n, s)])
                /\ {target_sites_at(p) : p \in positions_of(k)} = subsets
                /\ Cardinality(positions_of(k)) = Cardinality(subsets)
                /\ \A p \in positions_of(k) :
                      /\ Len(decoys.mods[p + 1])
                           = Len(gen_fixed_mods(decoys.seqs[k], fixed_residues))
                             + Cardinality(target_sites_at(p))
                      /\ decoys.masses[p + 1]
                           = base_mass(k) + mod_mass * Cardinality(target_sites_at(p))

\* C2: reached with a sequence that holds the target residue 4 times (the cap
\* of 3 cuts its variants to 14) beside one that holds it once, with fixed
\* modifications
C2_Witness ==
    /\ ContextBuilt
    /\ target_res # None
    /\ DOMAIN fixed_residues # {}
    /\ \E k \in DOMAIN decoys.seqs :
          Cardinality(target_sites(k)) = 4 /\ Cardinality(positions_of(k)) = 14
    /\ \E k \in DOMAIN decoys.seqs :
          Cardinality(target_sites(k)) = 1 /\ Cardinality(positions_of(k)) = 1

\* what the mass index holds at every position: a non-decreasing mass array,
\* and at position p the mass and the mods of the pool sequence seqs[idxs[p]]
IndexConsistent ==
    /\ Len(decoys.idxs) = Len(decoys.masses)
    /\ Len(decoys.mods) = Len(decoys.masses)
    /\ \A p \in Positions :
          /\ p + 1 < Len(decoys.masses) => decoys.masses[p + 1] <= decoys.masses[p + 2]
          /\ decoys.idxs[p + 1] + 1 \in DOMAIN decoys.seqs
          /\ LET k == decoys.idxs[p + 1] + 1
                 seq == decoys.seqs[k]
                 mods == decoys.mods[p + 1]
             IN  /\ decoys.masses[p + 1]
                      = FIXED_H2O + SumSeq([i \in DOMAIN seq |-> aa_mono(seq[i])])
                                  + SumSeq([n \in DOMAIN mods |-> mods[n].mass])
                 /\ \A n \in DOMAIN mods :
                       \/ /\ mods[n].name = target_mod
                          /\ target_res # None
                          /\ mods[n].site \in DOMAIN seq
                          /\ seq[mods[n].site] = target_res
                          /\ mods[n].mass = mod_mass
                       \/ /\ mods[n].site = NTermSite
                          /\ "nterm" \in DOMAIN fixed_residues
                          /\ mods[n].name = fixed_residues["nterm"]
                       \/ /\ mods[n].site \in DOMAIN seq
                          /\ seq[mods[n].site] \in DOMAIN fixed_residues
                          /\ mods[n].name = fixed_residues[seq[mods[n].site]]
                 /\ decoys.masses[p + 1]
                      = base_mass(k) + mod_mass * Cardinality(target_sites_at(p))

C10_WitnessUnmodified ==
    /\ ContextBuilt
    /\ target_res = None
    /\ Len(decoys.seqs) = 2
    /\ decoys.idxs = <<1, 0>>
    /\ decoys.masses[1] < decoys.masses[2]

(***************************************************************************)
(* The decoy assignment: claims about Spec and SpecRuns                    *)
(***************************************************************************)

\* the identification (as a position of psms) whose spectrum was scored last
scored_psm == spectra[spec_at].idx + 1

\* whether the loop over the spectra of the group has scored a spectrum
HasScored == apc \in {"score", "charges"} /\ spec_at >= 1 /\ dpsm_vars # <<>>

\* the candidates of the group in the order match_decoys generated them
generated == search(pep_mz, decoys, slices, var_ptms)

\* the position of a candidate in the generation order
generated_at(cand) ==
    CHOOSE i \in DOMAIN generated :
        generated[i] = cand /\ \A j \in 1..(i - 1) : generated[j] # cand

\* the positions of d_candidates that hold the highest of the scores
best_of(scores) ==
    {i \in DOMAIN scores : \A j \in DOMAIN scores : scores[j] <= scores[i]}

assignment_of(cand, score) ==
    DecoyID(cand.seq, cand.charge, cand.mods, [MatchScore |-> score])

\* C3: in every step of validate, over all groups, spectra and target
\* residues, an identification holds at most one decoy assignment, an
\* assignment once made stays made, and it is replaced only by one whose
\* MatchScore is strictly greater
C3_ReplacedOnlyOnHigherScore ==
    [][\A k \in DOMAIN psms :
          /\ Len(psms'[k].decoy_id) <= 1
          /\ psms[k].decoy_id # <<>> => psms'[k].decoy_id # <<>>
          /\ (psms[k].decoy_id # <<>> /\ psms'[k].decoy_id # psms[k].decoy_id)
                => psms[k].decoy_id[1].features.MatchScore
                     < psms'[k].decoy_id[1].features.MatchScore]_vars

\* during the second target residue a spectrum was scored whose best
\* candidate scores what the stored assignment scores, and the assignment of
\* the first target residue was kept
C3_Witness ==
    /\ HasScored
    /\ target_res = "K"
    /\ psms[scored_psm].decoy_id # <<>>
    /\ LET stored == psms[scored_psm].decoy_id[1]
       IN  /\ \A i \in DOMAIN dpsm_vars :
                 dpsm_vars[i] <= stored.features.MatchScore
           /\ \E i \in DOMAIN dpsm_vars :
                 dpsm_vars[i] = stored.features.MatchScore
           /\ \A i \in DOMAIN d_candidates : d_candidates[i].mods # stored.mods

\* C4 as stated: the candidate that is assigned is, of the surviving
\* candidates with the highest MatchScore, the first in the generation order
\* of match_decoys
C4_FirstInGenerationOrder ==
    [][\A k \in DOMAIN psms :
          (apc = "score" /\ psms'[k].decoy_id # psms[k].decoy_id) =>
             LET best == best_of(dpsm_vars')
                 first == CHOOSE i \in best : \A j \in best :
                              generated_at(d_candidates[i])
                                 <= generated_at(d_candidates[j])
             IN  psms'[k].decoy_id[1]
                    = assignment_of(d_candidates[first], dpsm_vars'[first])]_vars

\* the surviving candidates are in descending order of the number of ions
\* the prefilter matched and, for equal numbers, in generation order
SurvivorsOrdered ==
    (apc = "score" /\ cand_num_ions # <<>>) =>
        \A i, j \in DOMAIN d_candidates :
            i < j =>
               LET gi == generated_at(d_candidates[i])
                   gj == generated_at(d_candidates[j])
               IN  \/ cand_num_ions[gi] > cand_num_ions[gj]
                   \/ cand_num_ions[gi] = cand_num_ions[gj] /\ gi <= gj

\* C4, amended: the candidate that is assigned is, of the surviving
\* candidates with the highest MatchScore, the first in the list of surviving
\* candidates, which is ordered by descending number of matched ions of the
\* prefilter and by generation order only among equal numbers
C4_FirstOfSurvivors ==
    [][/\ SurvivorsOrdered
       /\ \A k \in DOMAIN psms :
             (apc = "score" /\ psms'[k].decoy_id # psms[k].decoy_id) =>
                LET best == best_of(dpsm_vars')
                    first == CHOOSE i \in best : \A j \in best : i <= j
                IN  psms'[k].decoy_id[1]
                       = assignment_of(d_candidates[first], dpsm_vars'[first])]_vars

\* two surviving candidates tie on the highest MatchScore, the first of the
\* list was assigned, and the prefilter had put it before a candidate that
\* match_decoys generated earlier
C4_Witness ==
    /\ HasScored
    /\ Len(d_candidates) >= 2
    /\ dpsm_vars[1] = dpsm_vars[2]
    /\ best_of(dpsm_vars) = DOMAIN dpsm_vars
    /\ psms[scored_psm].decoy_id
          = <<assignment_of(d_candidates[1], dpsm_vars[1])>>
    /\ generated_at(d_candidates[2]) < generated_at(d_candidates[1])

\* C5: the candidates a group passes on to the prefilter are those of the
\* search with the tight tolerance if they are at least MinCandidates, and
\* otherwise those of the search with the wide tolerance, never both
C5_TightOrWideNeverMerged ==
    LET tight == match_decoys(pep_mz, decoys, slices, var_ptms, TightTol)
        wide == match_decoys(pep_mz, decoys, slices, var_ptms, WideTol)
        searched == tight_count # NoCount /\ spec_at = 0
                       /\ apc \in {"prefilter", "charges"}
    IN  searched =>
           /\ tight_count = Len(tight)
           /\ searched_wide = (Len(tight) < MinCandidates)
           /\ d_candidates = IF Len(tight) >= MinCandidates THEN tight ELSE wide

\* the tight search found a candidate, but fewer than MinCandidates, and the
\* group goes on with the candidates of the wide search alone
C5_Witness ==
    /\ apc = "prefilter"
    /\ searched_wide
    /\ tight_count >= 1
    /\ Len(d_candidates) > tight_count
    /\ d_candidates = match_decoys(pep_mz, decoys, slices, var_ptms, WideTol)

\* C6: after the second of two runs on the same inputs, every identification
\* has the assignment it had after the first run
C6_RunsAgree ==
    (run = 2 /\ apc = "validated") =>
        \A k \in DOMAIN psms : psms[k].decoy_id = first_run[k]

\* both runs are complete and the first run assigned a decoy
C6_Witness ==
    /\ run = 2
    /\ apc = "validated"
    /\ \E k \in DOMAIN psms : first_run[k] # <<>> /\ psms[k].decoy_id # <<>>

\* the maximum intensities of the spectra of the group
group_intensities == [k \in DOMAIN spectra |-> spectra[k].max_intensity]

\* C9: the representative spectrum of a group is the first of the spectra of
\* the group whose maximum intensity is the largest; of the intensities
\* 120, 95, 200 it is the third
C9_RepresentativeIsFirstMax ==
    max_spec # NoCount =>
        /\ \E k \in DOMAIN spectra :
              /\ spectra[k].idx = max_spec
              /\ \A j \in DOMAIN spectra :
                    spectra[j].max_intensity <= spectra[k].max_intensity
              /\ \A j \in 1..(k - 1) :
                    spectra[j].max_intensity < spectra[k].max_intensity
        /\ group_intensities = <<120, 95, 200>> => max_spec = spectra[3].idx

\* the group with the intensities 120, 95, 200 has its third spectrum as the
\* representative one
C9_Witness ==
    /\ apc = "search"
    /\ group_intensities = <<120, 95, 200>>
    /\ max_spec = spectra[3].idx

\* two spectra of a group tie on the largest intensity and the first is taken
C9_WitnessTie ==
    /\ apc = "search"
    /\ Len(spectra) = 2
    /\ spectra[1].max_intensity = spectra[2].max_intensity
    /\ max_spec = spectra[1].idx

(***************************************************************************)
(* Errors and edge cases of the search context and of the assignment       *)
(***************************************************************************)

\* the residues of the catalogue that carry no fixed modification and have
\* no usable mass
GapResidues ==
    LET masses == var_ptm_masses_of(uniprot, fixed_aas)
    IN  {masses[k][1] : k \in {k \in DOMAIN masses : masses[k][2] = <<>>}}

\* C11: when a residue of the catalogue has no usable mass, the search
\* context is built all the same
C11_GapResidueIsSkipped ==
    (dpc # "config" /\ GapResidues # {}) => dpc # "failed"

\* the context was to be built with a residue that has no usable mass while
\* another residue has one
C11_Witness ==
    /\ dpc = "failed"
    /\ GapResidues # {}
    /\ \E k \in DOMAIN var_ptm_masses_of(uniprot, fixed_aas) :
          var_ptm_masses_of(uniprot, fixed_aas)[k][2] # <<>>

\* the identifications (as positions of psms) of the current group
group_psms == {idx + 1 : idx \in Range(charge_pep_idxs_of(peptide, charge))}

\* both searches of the current group return no candidate
NothingFound ==
    /\ apc = "search"
    /\ ~match_raises(pep_mz, slices, var_ptms)
    /\ match_decoys(pep_mz, decoys, slices, var_ptms, TightTol) = <<>>
    /\ match_decoys(pep_mz, decoys, slices, var_ptms, WideTol) = <<>>

\* C12: a group whose searches both return no candidate is skipped: the step
\* leaves every decoy assignment as it was and goes on to the next group
\* without an error, and neither the prefilter nor the scoring is ever
\* entered without candidates
C12_EmptyGroupIsSkipped ==
    [][/\ NothingFound =>
             /\ apc' = "charges"
             /\ d_candidates' = <<>>
             /\ psms' = psms
       /\ apc' \in {"prefilter", "score"} => d_candidates' # <<>>]_vars

\* a group with spectra was searched twice without result and skipped, its
\* identifications are without assignment, and a further group is waiting
C12_Witness ==
    /\ apc = "charges"
    /\ spectra # <<>>
    /\ tight_count = 0
    /\ searched_wide
    /\ d_candidates = <<>>
    /\ \A k \in group_psms : psms[k].decoy_id = <<>>
    /\ charges_left # {}

\* the identifications (as positions of psms) that have no spectrum
without_spectrum == {k \in DOMAIN psms : psms[k].spectrum = <<>>}

\* C13: an identification without spectrum is never among the spectra that
\* are scored and no step changes it, the identifications of its group that
\* have a spectrum are all taken, and a group without any spectrum is
\* skipped without an error
C13_NoSpectrumNeverScored ==
    [][/\ \A k \in without_spectrum : psms'[k] = psms[k]
       /\ \A k \in DOMAIN spectra' : (spectra'[k].idx + 1) \notin without_spectrum
       /\ (apc = "charges" /\ charges_left' # charges_left) =>
             /\ {spectra'[k].idx + 1 : k \in DOMAIN spectra'}
                   = {idx + 1 : idx \in Range(charge_pep_idxs_of(peptide', charge'))}
                        \ without_spectrum
             /\ spectra' = <<>> => (apc' = "charges" /\ psms' = psms)
             /\ spectra' # <<>> => apc' = "search"]_vars

\* a group was scored to its end: one of its identifications has no spectrum
\* and no decoy, another has a spectrum and was given a decoy
C13_Witness ==
    /\ apc = "charges"
    /\ spec_at >= 1
    /\ spec_at = Len(spectra)
    /\ \E k \in group_psms \cap without_spectrum : psms[k].decoy_id = <<>>
    /\ \E k \in group_psms \ without_spectrum : psms[k].decoy_id # <<>>

\* a group none of whose identifications has a spectrum was skipped
C13_WitnessNoSpectra ==
    /\ apc = "charges"
    /\ charge # 0
    /\ group_psms # {}
    /\ group_psms \subseteq without_spectrum
    /\ spectra = <<>>

\* C14: when a worker call of the prefilter map or of the feature map fails,
\* the step ends the assignment with the error and changes no decoy
\* assignment, and no step follows an error
C14_WorkerFailurePropagates ==
    [][/\ apc # "raised"
       /\ (apc \in {"prefilter", "score"} /\ apc' = "raised") =>
             /\ psms' = psms
             /\ d_candidates' = d_candidates
             /\ spec_at' = spec_at]_vars

\* the feature map failed at the second spectrum of a group: the first
\* spectrum has its decoy, the second has none
C14_Witness ==
    /\ apc = "raised"
    /\ Len(spectra) >= 2
    /\ spec_at = 1
    /\ Len(d_candidates) >= 2
    /\ psms[spectra[1].idx + 1].decoy_id # <<>>
    /\ psms[spectra[2].idx + 1].decoy_id = <<>>

\* the prefilter map failed: the candidates of the search are all there and
\* no identification of the group has a decoy
C14_WitnessPrefilter ==
    /\ apc = "raised"
    /\ d_candidates # <<>>
    /\ cand_num_ions = <<>>
    /\ \A k \in group_psms : psms[k].decoy_id = <<>>

(***************************************************************************)
(* The background pool and the search of its mass index                    *)
(***************************************************************************)
\* whether a sequence of the database belongs to the pool of the residue
eligible(seq, residue) ==
    /\ Len(seq) >= 7
    /\ \A i \in DOMAIN seq : seq[i] \in RESIDUES
    /\ residue # None => \E i \in DOMAIN seq : seq[i] = residue

\* C15: the sequences get_decoys returns are those of the database that are
\* at least 7 long, of standard residues only and hold the residue when one
\* is given, each of them once
C15_PoolIsTheEligibleSequences ==
    ContextBuilt =>
        /\ \A k \in DOMAIN decoy_db :
              eligible(decoy_db[k], target_res)
                 <=> \E p \in DOMAIN decoys.seqs : decoys.seqs[p] = decoy_db[k]
        /\ \A p \in DOMAIN decoys.seqs :
              \E k \in DOMAIN decoy_db : decoy_db[k] = decoys.seqs[p]
        /\ \A p, q \in DOMAIN decoys.seqs :
              decoys.seqs[p] = decoys.seqs[q] => p = q

\* the database holds an eligible sequence twice, the pool holds it once
C15_Witness ==
    /\ ContextBuilt
    /\ Len(decoy_db) = 2
    /\ decoy_db[1] = decoy_db[2]
    /\ Len(decoys.seqs) = 1

\* a sequence is left out for its length, another for a residue that is not
\* standard, another for lacking the residue; with no residue given the
\* last one is taken
C15_WitnessShort ==
    /\ ContextBuilt
    /\ \E k \in DOMAIN decoy_db : Len(decoy_db[k]) < 7
    /\ Len(decoys.seqs) = 1

C15_WitnessNotStandard ==
    /\ ContextBuilt
    /\ \E k \in DOMAIN decoy_db :
          Len(decoy_db[k]) >= 7 /\ ~(Range(decoy_db[k]) \subseteq RESIDUES)
    /\ Len(decoys.seqs) = 1

C15_WitnessResidue ==
    /\ ContextBuilt
    /\ target_res = "T"
    /\ \E k \in DOMAIN decoy_db :
          eligible(decoy_db[k], None) /\ ~eligible(decoy_db[k], "T")
    /\ Len(decoys.seqs) = 1

\* the (residue, mass) pairs of the variable-modification masses
var_pairs ==
    UNION {{<<var_ptms.masses[r][1], var_ptms.masses[r][2][m]>> :
               m \in DOMAIN var_ptms.masses[r][2]} : r \in DOMAIN var_ptms.masses}

\* the 0-based places at which the pool sequence of position p holds res and
\* may be modified
occurrences_of(p, res) ==
    LET seq == decoys.seqs[decoys.idxs[p + 1] + 1]
    IN  {j \in 0..(Len(seq) - 1) : seq[j + 1] = res /\ res \notin Range(fixed_aas)}

\* the (position, occurrence) pairs a linear scan of the mass array gives
\* for a residue and a mass
scanned_pairs(pep_mass, tol, res, mass) ==
    UNION {{<<p, j>> : j \in occurrences_of(p, res)} :
              p \in linear_scan(pep_mass - mass - tol, pep_mass - mass + tol)}

\* C16: for every charge and every (residue, mass) pair, the variable-PTM
\* tier gives each (position, occurrence) pair of a linear scan of the mass
\* array once and no other, and the candidate of a pair has the mass placed
\* at the occurrence
C16_VariableTierEqualsLinearScan ==
    dpc = "matched" =>
        \A c \in Range(MatchCharges) : \A rm \in var_pairs :
            LET pairs == var_seq_res_idxs(decoys, slices, var_ptms,
                                          peptide_mz * c, tol_factor * c,
                                          rm[1], rm[2])
                scanned == scanned_pairs(peptide_mz * c, tol_factor * c,
                                         rm[1], rm[2])
            IN  /\ Range(pairs) = scanned
                /\ Len(pairs) = Cardinality(scanned)
                /\ \A pj \in scanned :
                      Peptide(decoys.seqs[decoys.idxs[pj[1] + 1] + 1], c,
                              decoys.mods[pj[1] + 1]
                                \o <<ModSite(rm[2], pj[2] + 1, None)>>)
                         \in Range(candidates)

\* a search that returned, with a pair for the linear scan to give
C16_Witness ==
    /\ dpc = "matched"
    /\ \E c \in Range(MatchCharges) : \E rm \in var_pairs :
          scanned_pairs(peptide_mz * c, tol_factor * c, rm[1], rm[2]) # {}

\* the range of a lookup lies within the mass array
RangeOk(start, end) == 0 <= start /\ start <= end /\ end <= Len(decoys.masses)

\* C17: whatever the mass searched for, the slice lookups of match_decoys
\* raise no IndexError and give ranges with 0 <= start <= end <= N
C17_SliceLookupNeverRaises ==
    /\ dpc # "raised"
    /\ dpc = "matched" =>
          \A c \in Range(MatchCharges) :
             /\ RangeOk(Item(slices.idxs, fixed_start_at(slices, peptide_mz * c)),
                        Item(slices.idxs, fixed_end_at(slices, peptide_mz * c)))
             /\ RangeOk(Item(slices.idxs,
                             var_start_at(slices, var_ptms, peptide_mz * c)),
                        Item(slices.idxs,
                             var_end_at(slices, var_ptms, peptide_mz * c)))

\* the search raised although there are slices: at one of the charges the
\* mass less the margin lies above the last slice bound
C17_Witness ==
    /\ dpc = "raised"
    /\ slices.idxs # <<>>
    /\ \E c \in Range(MatchCharges) :
          /\ peptide_mz * c - SliceMargin > slices.bounds[Len(slices.bounds)]
          /\ fixed_start_at(slices, peptide_mz * c) = Len(slices.idxs)

\* a search from below the first slice bound returned, its ranges empty
C17_WitnessBelow ==
    /\ dpc = "matched"
    /\ \A c \in Range(MatchCharges) :
          /\ peptide_mz * c + SliceMargin < slices.bounds[1]
          /\ Item(slices.idxs, fixed_start_at(slices, peptide_mz * c)) = 0
          /\ Item(slices.idxs, fixed_end_at(slices, peptide_mz * c)) = 0

(***************************************************************************)
(* The prefilter and the scoring of every spectrum                         *)
(***************************************************************************)
\* whether from lists picks, in the order sel, the top of the ranking by
\* counts: non-increasing counts, equal counts in the order of from, and no
\* entry left out that would rank before one picked
IsTopRanking(sel, from, counts) ==
    /\ \A r \in DOMAIN sel : \A q \in DOMAIN sel :
          r < q => \/ counts[sel[r]] > counts[sel[q]]
                   \/ counts[sel[r]] = counts[sel[q]] /\ sel[r] < sel[q]
    /\ \A j \in DOMAIN from \ Range(sel) : \A r \in DOMAIN sel :
          \/ counts[sel[r]] > counts[j]
          \/ counts[sel[r]] = counts[j] /\ sel[r] < j

\* C18: the candidates the prefilter hands to the scoring of the spectra are
\* at most TopCandidates (1000 in the source), each of them a candidate of
\* the search, and they are the top of the ranking by the number of ions
\* matched, in non-increasing order, equal numbers in generation order
C18_TopOfIonRanking ==
    [][(apc = "prefilter" /\ apc' = "score") =>
          /\ Len(d_candidates') <= TopCandidates
          /\ Len(d_candidates') = Min2(TopCandidates, Len(d_candidates))
          /\ Len(cand_num_ions') = Len(d_candidates)
          /\ \E sel \in [DOMAIN d_candidates' -> DOMAIN d_candidates] :
                /\ \A r \in DOMAIN sel : d_candidates'[r] = d_candidates[sel[r]]
                /\ IsTopRanking(sel, d_candidates, cand_num_ions')]_vars

\* the prefilter dropped a candidate of the search and moved a later
\* candidate before an earlier one with fewer ions
C18_Witness ==
    /\ apc = "score"
    /\ Len(cand_num_ions) > TopCandidates
    /\ Len(d_candidates) = TopCandidates
    /\ \E i, j \in DOMAIN cand_num_ions :
          i < j /\ cand_num_ions[i] < cand_num_ions[j]
    /\ \E i, j \in DOMAIN cand_num_ions :
          i < j /\ cand_num_ions[i] = cand_num_ions[j]

\* C19: the spectra of a group are scored one after the other, all of them;
\* at each, every surviving candidate is scored, and an assignment that is
\* made goes to the identification of that spectrum and holds the sequence,
\* charge and mods of a candidate together with its own score, which no
\* other surviving candidate exceeds; no assignment is made only when the
\* stored one scores at least as high
C19_EverySpectrumScoredBestOffered ==
    [][(apc = "score" /\ apc' # "raised") =>
          LET k == spectra[spec_at + 1].idx + 1
          IN  /\ spec_at' = spec_at + 1
              /\ apc' = "charges" <=> spec_at' = Len(spectra)
              /\ DOMAIN dpsm_vars' = DOMAIN d_candidates
              /\ \A n \in DOMAIN psms \ {k} : psms'[n] = psms[n]
              /\ psms'[k] # psms[k] =>
                    \E i \in DOMAIN d_candidates :
                       /\ psms'[k] = [psms[k] EXCEPT !.decoy_id =
                             <<assignment_of(d_candidates[i], dpsm_vars'[i])>>]
                       /\ \A j \in DOMAIN dpsm_vars' :
                             dpsm_vars'[j] <= dpsm_vars'[i]
              /\ psms'[k] = psms[k] =>
                    /\ psms[k].decoy_id # <<>>
                    /\ \A j \in DOMAIN dpsm_vars' :
                          dpsm_vars'[j] <= psms[k].decoy_id[1].features.MatchScore]_vars

\* a spectrum other than the representative one was scored, the second
\* candidate scored higher than the first and it is the one assigned
C19_Witness ==
    /\ HasScored
    /\ scored_psm # max_spec + 1
    /\ Len(d_candidates) >= 2
    /\ dpsm_vars[1] < dpsm_vars[2]
    /\ psms[scored_psm].decoy_id
          = <<assignment_of(d_candidates[2], dpsm_vars[2])>>

(***************************************************************************)
(* The variants of a pool of two sequences                                 *)
(***************************************************************************)
\* the context was built from the two sequences, without fixed modification,
\* for the target residue T, which PEPTIDEK holds at the 0-based index 3
TwoSequencesBuilt ==
    /\ ContextBuilt
    /\ decoy_db = TwoSequences
    /\ fixed_residues = NoFixed
    /\ target_res = "T"
    /\ positions_where(TwoSequences[1], {target_res}) = <<3>>

\* the pool sequence PEPTIDEK has one variant, its mass is the base mass plus
\* the mass of the target modification, and its one modification is the
\* target modification at the given site
OneVariantAt(site) ==
    \A k \in DOMAIN decoys.seqs :
        decoys.seqs[k] = TwoSequences[1] =>
            /\ Cardinality(positions_of(k)) = 1
            /\ \A p \in positions_of(k) :
                  /\ decoys.masses[p + 1] = base_mass(k) + mod_mass
                  /\ decoys.mods[p + 1] = <<ModSite(mod_mass, site, target_mod)>>

\* C20 as stated: the one variant of PEPTIDEK, whose target residue is at
\* index 3, has the base mass plus the modification mass and a single
\* ModSite whose site is 3
C20_OneVariantAtSite3 == TwoSequencesBuilt => OneVariantAt(3)

\* C20, amended: the one variant of PEPTIDEK, whose target residue is at the
\* 0-based index 3, has the base mass plus the modification mass and a
\* single ModSite whose site is the 1-based 4
C20_OneVariantAtSite4 == TwoSequencesBuilt => OneVariantAt(4)

\* the context of the two sequences was built: PEPTIDEK and AAPEPTIDE are
\* both in the pool, with one variant each
C20_Witness ==
    /\ TwoSequencesBuilt
    /\ Len(decoys.seqs) = 2
    /\ Len(decoys.masses) = 2

(***************************************************************************)
(* The groups of _generate_decoy_matches                                   *)
(***************************************************************************)
\* the first identification (as a position of psms) of the current group
first_of_group == CHOOSE k \in group_psms : \A n \in group_psms : k <= n

C22_SameForEverySchedule ==
    [][/\ apc' = "mapping" => (psms' = psms /\ d_candidates' = d_candidates)
       /\ (apc = "mapping" /\ apc' # "mapping") =>
             /\ returned = DOMAIN d_candidates
             /\ Len(completed) = Len(d_candidates)
             /\ map_kind = "ions" =>
                   /\ cand_num_ions' = task_vals
                   /\ d_candidates' = top_candidates(d_candidates, task_vals)
                   /\ psms' = psms
             /\ map_kind = "score" =>
                   LET k == spectra[spec_at + 1].idx + 1
                       best == best_of(task_vals)
                       first == CHOOSE i \in best : \A j \in best : i <= j
                   IN  /\ dpsm_vars' = task_vals
                       /\ \A n \in DOMAIN psms \ {k} : psms'[n] = psms[n]
                       /\ psms'[k].decoy_id =
                             IF \/ psms[k].decoy_id = <<>>
                                \/ psms[k].decoy_id[1].features.MatchScore
                                     < task_vals[first]
                             THEN <<assignment_of(d_candidates[first],
                                                  task_vals[first])>>
                             ELSE psms[k].decoy_id]_vars

\* every call of a feature map has returned, the second candidate before
\* the first, and the two score differently
C22_Witness ==
    /\ apc = "mapping"
    /\ map_kind = "score"
    /\ returned = DOMAIN task_vals
    /\ Len(completed) >= 2
    /\ completed[1] > completed[2]
    /\ task_vals[1] # task_vals[2]

(***************************************************************************)
(* The search context across the groups                                    *)
(***************************************************************************)
\* the ModSites of a list of mods that have no name: those match_decoys adds
unnamed_sites(mods) == {n \in DOMAIN mods : mods[n].name = None}

\* C23: once the context of a target residue is built, no step changes the
\* decoys or the slices, whether it searches a group, scores it or moves
\* on, and no mods list of the decoys holds a ModSite that match_decoys
\* adds to a candidate
C23_ContextIsReadOnly ==
    [][/\ apc # "validate" => (decoys' = decoys /\ slices' = slices)
       /\ \A p \in DOMAIN decoys'.mods : unnamed_sites(decoys'.mods[p]) = {}]_vars

\* a group was searched and one of its candidates carries a variable
\* ModSite, while the mods of the decoys carry none
C23_Witness ==
    /\ apc = "prefilter"
    /\ \E k \in DOMAIN d_candidates : unnamed_sites(d_candidates[k].mods) # {}
    /\ \A p \in DOMAIN decoys.mods : unnamed_sites(decoys.mods[p]) = {}

(***************************************************************************)
(* The identifications after validate's decoy matching                     *)
(***************************************************************************)
\* the identifications without their decoys
identifications == [k \in DOMAIN psms |-> [psms[k] EXCEPT !.decoy_id = <<>>]]

\* C24: after the decoy matching of all target residues the list of the
\* identifications is the list validate started with, each identification
\* in it once, for one target residue and for two
C24_EachIdentificationOnce ==
    apc = "validated" =>
        identifications \in {TightGroup, WideGroups, TwoResidues}

\* the decoy matching of two target residues is complete
C24_Witness ==
    /\ apc = "validated"
    /\ Len(target_residues) = 2
    /\ Len(psms) = 2 * Len(TwoResidues)

(***************************************************************************)
(* The order of the groups                                                 *)
(***************************************************************************)
\* the identifications of the peptide string and charge of identification k
group_of(k) ==
    {n \in DOMAIN psms : psms[n].pep = psms[k].pep
                          /\ psms[n].charge = psms[k].charge}

\* what the workers returned for a candidate and a spectrum
worker_val(kind, spec_id, cand) ==
    (CHOOSE e \in evidence :
        e.kind = kind /\ e.spec = spec_id /\ e.cand = cand).val

\* the decoy of identification k as its own group alone determines it: the
\* candidates of the m/z of the group, ranked against the representative
\* spectrum of the group, scored against the spectrum of k
decoy_by_group(k) ==
    LET grp == group_of(k)
        first == CHOOSE n \in grp : \A j \in grp : n <= j
        with_spec == {n \in grp : psms[n].spectrum # <<>>}
        rep == CHOOSE n \in with_spec :
                  \A j \in with_spec :
                     \/ psms[j].spectrum[1].max_intensity
                          < psms[n].spectrum[1].max_intensity
                     \/ /\ psms[j].spectrum[1].max_intensity
                             = psms[n].spectrum[1].max_intensity
                        /\ n <= j
        cands == search(calculate_mz(psms[first], psms[k].charge), decoys,
                        slices, var_ptms)
        counts == [i \in DOMAIN cands |->
                      worker_val("ions", psms[rep].spectrum[1].id, cands[i])]
        survivors == top_candidates(cands, counts)
        scores == [i \in DOMAIN survivors |->
                      worker_val("score", psms[k].spectrum[1].id, survivors[i])]
        best == best_of(scores)
        at == CHOOSE i \in best : \A j \in best : i <= j
    IN  IF psms[k].spectrum = <<>> \/ cands = <<>> THEN <<>>
        ELSE <<assignment_of(survivors[at], scores[at])>>

\* C25: when the call for a target residue has gone through all peptide
\* strings and charges, in whatever order, the decoy of every
\* identification is the one its own peptide+charge group determines
C25_SameForEveryOrder ==
    (apc = "validated" /\ Len(target_residues) = 1) =>
        \A k \in DOMAIN psms : psms[k].decoy_id = decoy_by_group(k)

\* the call is complete and identifications of two peptides and of two
\* charges of one peptide were gone through, three of them given a decoy
C25_Witness ==
    /\ apc = "validated"
    /\ Len(target_residues) = 1
    /\ Cardinality({psms[k].pep : k \in DOMAIN psms}) >= 2
    /\ \E k, n \in DOMAIN psms :
          psms[k].pep = psms[n].pep /\ psms[k].charge # psms[n].charge
    /\ Cardinality({k \in DOMAIN psms : psms[k].decoy_id # <<>>}) >= 3

\* C26: in a second call of _generate_decoy_matches with the search context
\* of the first, on the identifications as the first call left them, no step
\* changes the assignment of any identification: sequence, charge, mods
\* and features stay what they were
C26_SecondCallChangesNothing ==
    [][run = 2 =>
          \A k \in DOMAIN psms :
             /\ psms'[k].decoy_id = psms[k].decoy_id
             /\ psms'[k].decoy_id = first_run'[k]]_vars

\* the second call has scored a spectrum of an identification that carries
\* the assignment of the first call, and the best candidate scores exactly
\* what that assignment scores
C26_Witness ==
    /\ run = 2
    /\ HasScored
    /\ first_run[scored_psm] # <<>>
    /\ psms[scored_psm].decoy_id = first_run[scored_psm]
    /\ \E i \in DOMAIN dpsm_vars :
          dpsm_vars[i] = first_run[scored_psm][1].features.MatchScore

\* how many times a candidate is in a list of candidates
times_in(cands, cand) == Cardinality({i \in DOMAIN cands : cands[i] = cand})

\* the candidates of the wide pass for the m/z that was searched
wide_pass == match_decoys(peptide_mz, decoys, slices, var_ptms, WideTol)

\* C27: for every m/z searched with the tight tolerance, every candidate is
\* among the candidates of the wide pass at least as many times as among
\* those of the tight pass, and the wide pass has at least as many candidates
C27_WidePassContainsTightPass ==
    (dpc = "matched" /\ tol_factor = TightTol) =>
        /\ \A cand \in Range(candidates) :
              times_in(candidates, cand) <= times_in(wide_pass, cand)
        /\ Len(candidates) <= Len(wide_pass)

\* the tight pass found a candidate of the variable-PTM tier and the wide
\* pass finds more candidates than the tight pass
C27_Witness ==
    /\ dpc = "matched"
    /\ tol_factor = TightTol
    /\ \E j \in DOMAIN candidates : unnamed_sites(candidates[j].mods) # {}
    /\ Len(wide_pass) > Len(candidates)

\* the tight pass found candidates of the fixed-mod tier only and the wide
\* pass finds more candidates than the tight pass
C27_WitnessFixedTier ==
    /\ dpc = "matched"
    /\ tol_factor = TightTol
    /\ candidates # <<>>
    /\ \A j \in DOMAIN candidates : unnamed_sites(candidates[j].mods) = {}
    /\ Len(wide_pass) > Len(candidates)

\* the ModSites of a list of mods that bear the target modification
target_mod_sites(mods) == {n \in DOMAIN mods : mods[n].name = target_mod}

\* the ModSites of a list of mods that gen_fixed_mods placed on a residue
fixed_residue_sites(mods) ==
    {mods[n].site : n \in {n \in DOMAIN mods :
        /\ mods[n].name \notin {None, target_mod}
        /\ mods[n].site # NTermSite}}

\* C28: in the context of a target residue, every candidate of match_decoys
\* has 1 to 3 ModSites of the target modification, on different sites, each
\* the 1-based position of a target residue; it has at most one ModSite
\* without a name, whose residue is neither the target residue nor a residue
\* of the fixed-modification table nor one that bears a fixed ModSite, and
\* whose mass is at most 100 Da in absolute value
C28_CandidateModSites ==
    (dpc = "matched" /\ target_res # None) =>
        \A i \in DOMAIN candidates :
           LET cand == candidates[i]
               mods == cand.mods
               target == target_mod_sites(mods)
               variable == unnamed_sites(mods)
           IN  /\ Cardinality(target) \in 1..MaxTargetMods
               /\ \A n, m \in target : n # m => mods[n].site # mods[m].site
               /\ \A n \in target :
                     /\ mods[n].site \in 1..Len(cand.seq)
                     /\ cand.seq[mods[n].site] = target_res
               /\ Cardinality(variable) <= 1
               /\ \A n \in variable :
                     /\ mods[n].site \in 1..Len(cand.seq)
                     /\ cand.seq[mods[n].site] # target_res
                     /\ cand.seq[mods[n].site] \notin DOMAIN fixed_residues
                     /\ mods[n].site \notin fixed_residue_sites(mods)
                     /\ Abs(mods[n].mass) <= MaxVarMass

\* with a fixed-modification table, a search returned a candidate that has
\* two ModSites of the target modification, a fixed ModSite on a residue and
\* a variable ModSite, from a table that lists a mass above 100 Da
C28_Witness ==
    /\ dpc = "matched"
    /\ target_res # None
    /\ fixed_residues # NoFixed
    /\ \E k \in DOMAIN uniprot : \E n \in DOMAIN uniprot[k][2] :
          uniprot[k][2][n].has_mass /\ uniprot[k][2][n].mass > MaxVarMass
    /\ \E i \in DOMAIN candidates :
          /\ Cardinality(target_mod_sites(candidates[i].mods)) >= 2
          /\ fixed_residue_sites(candidates[i].mods) # {}
          /\ unnamed_sites(candidates[i].mods) # {}

(***************************************************************************)
(* readers.PTMDB                                                           *)
(***************************************************************************)
\* the rows added so far whose field, as given by key, is the name asked for
rows_with(key, name) == {e \in Range(ptm_entries) : key[e] = name}

\* the mass of a row, of the type asked for
mass_asked(e) == IF ptm_asked.mass_type = "mono" THEN e.mono ELSE e.avg

\* a name without its spaces and in lower case
folded(name) == lower(without_spaces(name))

\* the rows get_mass is to answer from: those of the PSI-MS name, else those
\* of the interim name, else those of the Description without regard to
\* spaces and case
rows_asked ==
    LET by_psi == rows_with([e \in PtmRows |-> e.psi], ptm_asked.name)
        by_interim == rows_with([e \in PtmRows |-> e.interim], ptm_asked.name)
        by_description == rows_with([e \in PtmRows |-> folded(e.description)],
                                    folded(ptm_asked.name))
    IN  IF by_psi # {} THEN by_psi
        ELSE IF by_interim # {} THEN by_interim
        ELSE by_description

\* C29: after any add_entry calls, get_mass of a name that does not start
\* with "delta" returns the mass of a row with that PSI-MS name, else of a
\* row with that interim name, else of a row whose Description is the name
\* without regard to spaces and case, and None when there is no such row
C29_MassByNameThenDescription ==
    (ptc = "answered" /\ ~startswith_delta(folded(ptm_asked.name))) =>
        IF rows_asked = {} THEN ptm_got = <<>>
        ELSE ptm_got \in {<<mass_asked(e)>> : e \in rows_asked}

\* get_mass was asked for the Description of a row, which is no PSI-MS name
\* and no interim name of the rows added, and returned None
C29_Witness ==
    /\ ptc = "answered"
    /\ ~startswith_delta(folded(ptm_asked.name))
    /\ \E e \in Range(ptm_entries) : e.description = ptm_asked.name
    /\ \A e \in Range(ptm_entries) :
          e.psi # ptm_asked.name /\ e.interim # ptm_asked.name
    /\ ptm_got = <<>>

\* C30: once the search context is built, the list of fixed residues holds
\* neither "nterm" nor "cterm", whichever termini the table has
C30_NoTerminusLeft ==
    ContextBuilt =>
        "nterm" \notin Range(fixed_aas) /\ "cterm" \notin Range(fixed_aas)

\* the context was built from a table with "cterm" and without "nterm", for
\* a target residue, and "cterm" is in the list of fixed residues
C30_Witness ==
    /\ ContextBuilt
    /\ target_res # None
    /\ "cterm" \in DOMAIN fixed_residues
    /\ "nterm" \notin DOMAIN fixed_residues
    /\ "cterm" \in Range(fixed_aas)
====
